---- MODULE Spec2Model ----
(***************************************************************************)
(* A model of the Controller actor (controller.go), the Client handle      *)
(* (client.go) and the Bifrost adapter's use of a Client (bifrost.go).     *)
(*                                                                         *)
(* Every Go channel of the program is unbuffered, so a send and the        *)
(* matching receive are one step of the model (a rendezvous): the sender   *)
(* must be at its send statement and the receiver at a receive statement   *)
(* on the same channel.  A channel is named by a pair: <<"rx", h>> is the  *)
(* Rx of client h, <<"reply", h>> the reply channel of the Bifrost adapter *)
(* on client h, <<"nc", h>> that adapter's handshake channel (ncreply) and *)
(* <<"fresh", id>> the channel a Copy, a Shutdown or a direct caller makes *)
(* for request id.                                                         *)
(***************************************************************************)
EXTENDS Integers, Sequences, FiniteSets, TLC

\* Bounds of the model.
MaxClients == 3   \* client handles that can ever exist (the root and its copies)
MaxOps == 3       \* operations the users of the handles start in one run
MaxSelection == 2 \* the largest selection index a List is taken to
MaxLine == 4      \* the bytes of the longest of the lines tokenised
MaxSends == 4     \* the calls of Send on a Bifrost-level Client in one run
MaxTail == 7      \* the bytes after tag and word of the longest of the other lines

Handles == 1..MaxClients

VARIABLES
    clients,     \* Controller.clients: attached client -> index of its select case
    running,     \* Controller.running
    cpc,         \* where the Controller task is: "start", "loop", "handle", "exited"
    cur,         \* the Request handleRequest is handling (NoReq: none)
    todo,        \* the responses handleRequest has still to send, in order
    bleft,       \* broadcast loop: the clients it has not yet sent to
    btgt,        \* broadcast loop: the client it is sending to (0: none)
    parser,      \* whether the Controllable implements bifrost.Parser
    txClosed,    \* per client: its Tx was closed by its user
    rxClosed,    \* per client: how often the Controller closed its Rx
    doneClosed,  \* per client: how often the Controller closed its Done
    kind,        \* per client: who uses the handle: "none", "owner", "adapter"
    upc,         \* per client: where its user is
    uop,         \* per client: the operation its user is in
    urq,         \* per client: the Request its user is sending or awaiting
    ncli,        \* per client: Copy's local variable ncli (0: nil)
    ret,         \* per client: what its user's last operation returned
    nreq,        \* how many Requests have been made
    parent,      \* per client: the client it was copied from (0: the root)
    shut,        \* per client: how often Shutdown has returned on it
    budget,      \* operations the users may still start
    outClosed,   \* per client: how often its adapter closed its outward Tx
    hist,        \* the last request received and the responses sent for it
    lst,         \* the List a Controller has as its state
    conns,       \* the clients held by the Bifrost adapter of a connection
    inp,         \* the last message a connection's wire side sent
    resps,       \* per client: the responses the Controller sent it in the last step
    wire,        \* per client: the messages its adapter emitted in the last step
    panicked,    \* the Controller task has panicked
    last,        \* the last operation called on the List itself and its result
    conv,        \* the last line given to the tokeniser and what became of it
    ep           \* a Bifrost-level client and endpoint pair and the context of its user

cvars == <<clients, running, cpc, cur, todo, bleft, btgt, parser>>
chvars == <<txClosed, rxClosed, doneClosed>>
uvars == <<kind, upc, uop, urq, ncli, ret, nreq, shut, budget, outClosed>>
lvars == <<lst, conns, inp, resps, wire, panicked, last, conv, ep>>
vars == <<cvars, chvars, uvars, parent, hist, lvars>>

-----------------------------------------------------------------------------
(* Requests and responses *)

\* RequestOrigin{Tag, ReplyTx}
RequestOrigin(tag, rch) == [Tag |-> tag, ReplyTx |-> rch]

\* Request{Origin, Body}; id numbers the requests, from is the client whose Tx
\* carries it.
Request(id, h, tag, rch, body) ==
    [id |-> id, from |-> h, Origin |-> RequestOrigin(tag, rch), Body |-> body]

NoReq == [id |-> 0]

\* The nil *RequestOrigin of a broadcast.
NilOrigin == [nil |-> TRUE]

\* What a handler asks reply or broadcast to send: the response body.
\* Body is the type of the body, Err is DoneResponse.Err ("" is nil), Client is
\* newClientResponse.Client and Arg the fields of any other body.
NoArg == << >>
ReplyOp(body) == [bc |-> FALSE, Body |-> body, Err |-> "", Client |-> 0, Arg |-> NoArg]
BcastOp(body) == [bc |-> TRUE, Body |-> body, Err |-> "", Client |-> 0, Arg |-> NoArg]
NewClientOp(c) ==
    [bc |-> FALSE, Body |-> "newClientResponse", Err |-> "", Client |-> c, Arg |-> NoArg]
DoneOp(err) == [bc |-> FALSE, Body |-> "Done", Err |-> err, Client |-> 0, Arg |-> NoArg]

\* Controller.reply: a unicast Response to origin o, sent on o.ReplyTx.
reply(o, op) ==
    [ch |-> o.ReplyTx,
     resp |-> [Broadcast |-> FALSE, Origin |-> o, Body |-> op.Body,
               Err |-> op.Err, Client |-> op.Client, Arg |-> op.Arg]]

\* Controller.broadcast, one iteration of its loop: the Response sent on cl.tx.
broadcast(cl, op) ==
    [ch |-> <<"rx", cl>>,
     resp |-> [Broadcast |-> TRUE, Origin |-> NilOrigin, Body |-> op.Body,
               Err |-> op.Err, Client |-> op.Client, Arg |-> op.Arg]]

-----------------------------------------------------------------------------
(* The Controllable of the tests (controller_test.go, testState) *)

\* testState.Dump: emits nothing.
Dump == << >>

\* testState.HandleRequest(replyCb, bcastCb, rbody): a knownDummyRequest sends
\* one knownDummyResponse, through bcastCb if its Broadcast field is set and
\* through replyCb if not; any other body is an error.
HandleRequest(body) ==
    CASE body = "knownDummy" ->
           [out |-> <<ReplyOp("knownDummyResponse")>>, err |-> ""]
      [] body = "knownDummyBroadcast" ->
           [out |-> <<BcastOp("knownDummyResponse")>>, err |-> ""]
      [] OTHER -> [out |-> << >>, err |-> "unknown request"]

-----------------------------------------------------------------------------
(* The Controller's handlers.  Each gives the responses it sends before the *)
(* Done (out), the error it returns (err, "" for nil), whether it clears    *)
(* running (stop) and whether it makes and adds a client (add).             *)

Handled(out, err) == [out |-> out, err |-> err, stop |-> FALSE, add |-> FALSE]

handleRoleRequest == Handled(<<ReplyOp("IamaResponse")>>, "")

handleDumpRequest == Handled(Dump, "")

\* A handler that makes the client but does not add it to c.clients.
handleNewClientRequestNoAdd(n) ==
    [out |-> <<NewClientOp(n)>>, err |-> "", stop |-> FALSE, add |-> FALSE]

handleNewClientRequest(n) ==
    [out |-> <<NewClientOp(n)>>, err |-> "", stop |-> FALSE, add |-> TRUE]

\* Controller.mounts is never filled: every mount point is absent.
handleOnRequest == Handled(<< >>, "no such mount point")

\* A handler that acknowledges the shutdown and leaves running set.
handleShutdownRequestNoStop ==
    [out |-> << >>, err |-> "", stop |-> FALSE, add |-> FALSE]

handleShutdownRequest ==
    [out |-> << >>, err |-> "", stop |-> TRUE, add |-> FALSE]

handleBifrostParserRequest(p) ==
    IF p THEN Handled(<<ReplyOp("bifrostParserResponse")>>, "")
         ELSE Handled(<< >>, "ErrControllerCannotSpeakBifrost")

\* A Controller that hands the Controllable its callbacks the wrong way round.
handleStateSpecificRequestSwapped(body) ==
    LET r == HandleRequest(body)
    IN Handled([i \in 1..Len(r.out) |-> [r.out[i] EXCEPT !.bc = ~@]], r.err)

handleStateSpecificRequest(body) ==
    LET r == HandleRequest(body) IN Handled(r.out, r.err)

\* The terminating response of handleRequest: ack := DoneResponse{err}; c.reply(o, ack)
Ack(err) == <<DoneOp(err)>>

\* A handleRequest that acknowledges before it runs the handler.
handleRequestAckFirst(body, n, p) ==
    LET r == CASE body = "RoleRequest" -> handleRoleRequest
               [] body = "OnRequest" -> handleOnRequest
               [] body = "DumpRequest" -> handleDumpRequest
               [] body = "newClientRequest" -> handleNewClientRequest(n)
               [] body = "shutdownRequest" -> handleShutdownRequest
               [] body = "bifrostParserRequest" -> handleBifrostParserRequest(p)
               [] OTHER -> handleStateSpecificRequest(body)
    IN [r EXCEPT !.out = Ack(r.err) \o r.out]

\* Controller.handleRequest: the handler chosen by the body's type, then the Done.
handleRequest(body, n, p) ==
    LET r == CASE body = "RoleRequest" -> handleRoleRequest
               [] body = "OnRequest" -> handleOnRequest
               [] body = "DumpRequest" -> handleDumpRequest
               [] body = "newClientRequest" -> handleNewClientRequest(n)
               [] body = "shutdownRequest" -> handleShutdownRequest
               [] body = "bifrostParserRequest" -> handleBifrostParserRequest(p)
               [] OTHER -> handleStateSpecificRequest(body)
    IN [r EXCEPT !.out = r.out \o Ack(r.err)]

\* rebuildClientSelects over the client set S: each client gets the index of its
\* select case; the order is that of Go's map iteration, so any order.
rebuildClientSelects(S) ==
    {f \in [S -> 0..(Cardinality(S) - 1)] : \A a, b \in S : f[a] = f[b] => a = b}

\* A hangUpClientWithCase that takes the first client of the map, whatever
\* its index.
hangUpClientWithCaseAny(i) == DOMAIN clients

\* hangUpClientWithCase(i): the clients whose select case is at index i.
hangUpClientWithCase(i) == {cl \in DOMAIN clients : clients[cl] = i}

\* How many clients makeClient has made so far: the root and every copy.
Made == Cardinality({h \in Handles : h = 1 \/ parent[h] # 0})

\* The start of broadcast's loop over c.clients, or of a reply: the loop picks
\* its first client (any, by map order) and is then blocked on that send.
Head1(td) == td # << >> /\ Head(td).bc

\* A broadcast that leaves out the client the request came from.
SetHeadNotRequester(td, cl) ==
    LET S == DOMAIN cl \ {hist'.rq.from}
    IN IF Head1(td) /\ S # {}
       THEN bleft' = S /\ btgt' \in S
       ELSE bleft' = {} /\ btgt' = 0

\* A broadcast whose loop ends after its first send.
SetHeadFirstOnly(td, cl) ==
    IF Head1(td) /\ DOMAIN cl # {}
    THEN \E t \in DOMAIN cl : bleft' = {t} /\ btgt' = t
    ELSE bleft' = {} /\ btgt' = 0

SetHead(td, cl) ==
    IF Head1(td) /\ DOMAIN cl # {}
    THEN bleft' = DOMAIN cl /\ btgt' \in DOMAIN cl
    ELSE bleft' = {} /\ btgt' = 0

-----------------------------------------------------------------------------
(* The List (list.go, item.go) and the List as a Controllable               *)
(* (list/controller.go).  An item is its hash and its type; the payload is  *)
(* carried along unread and is left out.  Indices count from 0 as in the    *)
(* code; l.items is the linked list, front first.                           *)

\* list.New: an empty list, no selection, autoselect off.
\* The AutoMode enumeration.
AutoOff == 0
AutoDrop == 1
AutoNext == 2
AutoShuffle == 3

\* List.RoleName
RoleName == "list"

\* corecmd.ThisProtocolVer and the adapter's sversion.
ThisProtocolVer == "bifrost-0.0.0"
sversion == "yaps-0.0.0"

New == [items |-> << >>, selection |-> -1, autoselect |-> AutoOff, usedHashes |-> {}]

\* NewTrack and NewText.
NewTrack(hash, payload) == [hash |-> hash, payload |-> payload, itype |-> "track"]
NewText(hash, payload) == [hash |-> hash, payload |-> payload, itype |-> "text"]

\* Every item can be selected.
IsSelectableAlways(item) == TRUE

\* Item.IsSelectable
IsSelectable(item) == item.itype # "text"

Count(l) == Len(l.items)

\* A search that counts the elements from 1.
elementWithIndexFromOne(l, i) == IF i >= 1 /\ i <= Count(l) THEN i ELSE 0

\* List.elementWithIndex: the position in l.items of the element with index
\* i, 0 for nil.  The loop runs off the end for every i outside 0..Count-1.
elementWithIndex(l, i) == IF i >= 0 /\ i < Count(l) THEN i + 1 ELSE 0

\* A search that never finds the hash.
ItemWithHashNotFound(l, hash) == -1

\* List.ItemWithHash: the index of the first item with the hash, or -1.
ItemWithHash(l, hash) ==
    LET S == {k \in 1..Count(l) : l.items[k].hash = hash}
    IN IF S = {} THEN -1 ELSE (CHOOSE k \in S : \A m \in S : k <= m) - 1

\* An Add that leaves the selection where it is.
AddKeepingSelection(l, item, i) ==
    IF ItemWithHash(l, item.hash) > -1
    THEN [l |-> l, err |-> "duplicate hash"]
    ELSE IF i = 0
    THEN [l |-> [l EXCEPT !.items = <<item>> \o @], err |-> ""]
    ELSE IF elementWithIndex(l, i - 1) # 0
    THEN [l |-> [l EXCEPT !.items = SubSeq(@, 1, i) \o <<item>>
                                      \o SubSeq(@, i + 1, Len(@))],
          err |-> ""]
    ELSE [l |-> l, err |-> "Tried to insert element past the end"]

\* List.Add(item, i): the selection is moved before the index is known to be
\* good.
Add(l, item, i) ==
    LET moved == [l EXCEPT !.selection = IF i <= l.selection THEN @ + 1 ELSE @]
    IN IF ItemWithHash(l, item.hash) > -1
       THEN [l |-> l, err |-> "duplicate hash"]
       ELSE IF i = 0
       THEN [l |-> [moved EXCEPT !.items = <<item>> \o @], err |-> ""]
       ELSE IF elementWithIndex(l, i - 1) # 0
       THEN [l |-> [moved EXCEPT !.items = SubSeq(@, 1, i) \o <<item>>
                                            \o SubSeq(@, i + 1, Len(@))],
             err |-> ""]
       ELSE [l |-> moved, err |-> "Tried to insert element past the end"]

\* A SetAutoMode that reports a change whatever the mode was.
SetAutoModeAlwaysChanged(l, mode) ==
    [l |-> [l EXCEPT !.autoselect = mode], changed |-> TRUE]

\* The used hashes are kept.
clearUsedHashesKeeping(l) == l

\* List.clearUsedHashes
clearUsedHashes(l) == [l EXCEPT !.usedHashes = {}]

\* List.SetAutoMode: whether the mode changed.  A change to shuffle mode
\* empties the used hashes first.
SetAutoMode(l, mode) ==
    IF mode = l.autoselect THEN [l |-> l, changed |-> FALSE]
    ELSE [l |-> [(IF mode = AutoShuffle THEN clearUsedHashes(l) ELSE l)
                   EXCEPT !.autoselect = mode],
          changed |-> TRUE]

\* List.Selection: index and item, or the panic "selection not in list".
Selection(l) ==
    IF l.selection = -1 THEN [index |-> -1, nil |-> TRUE, panic |-> FALSE]
    ELSE IF elementWithIndex(l, l.selection) # 0
    THEN [index |-> l.selection, nil |-> FALSE, panic |-> FALSE]
    ELSE [index |-> l.selection, nil |-> TRUE, panic |-> TRUE]

\* List.Select(index, hash)
Select(l, index, hash) ==
    LET e == elementWithIndex(l, index)
        fail(msg) == [l |-> l, changed |-> FALSE, err |-> msg]
    IN IF e = 0 THEN fail("Select: index out of bounds")
       ELSE IF hash # l.items[e].hash THEN fail("Select: hash mismatch")
       ELSE IF ~IsSelectable(l.items[e]) THEN fail("Select: item not selectable")
       ELSE [l |-> [l EXCEPT !.selection = index],
             changed |-> (index # l.selection), err |-> ""]

\* List.Freeze
Freeze(l) == l.items

\* What chooseNext can return: an index and a hash, and the List as the
\* choice leaves it.
Choice(l, index, hash) == [l |-> l, index |-> index, hash |-> hash]

\* List.shuffleChoose: any item whose hash is not used, which becomes used;
\* with every hash used the used hashes are emptied and nothing is chosen.
\* The choice among the unpicked is rng.Intn's.
shuffleChoose(l) ==
    LET unpicked == {k \in 1..Count(l) : l.items[k].hash \notin l.usedHashes}
    IN IF unpicked = {} THEN {Choice(clearUsedHashes(l), -1, "")}
       ELSE {Choice([l EXCEPT !.usedHashes = @ \cup {l.items[k].hash}],
                    k - 1, l.items[k].hash) : k \in unpicked}

\* List.chooseNext(i, prev); prev is the position of the selected element.
chooseNext(l, i, prev) ==
    CASE l.autoselect = AutoOff -> {Choice(l, i, l.items[prev].hash)}
      [] l.autoselect = AutoDrop -> {Choice(l, -1, "")}
      [] l.autoselect = AutoNext ->
           IF prev < Count(l) THEN {Choice(l, i + 1, l.items[prev + 1].hash)}
           ELSE {Choice(l, -1, "")}
      [] l.autoselect = AutoShuffle -> shuffleChoose(l)
      [] OTHER -> {Choice(l, -1, "")}

\* List.Next: the outcomes it can have, each the List afterwards, the index
\* returned and the flag returned.
ListNext(l) ==
    LET e == elementWithIndex(l, l.selection)
    IN IF e = 0 THEN {[l |-> l, index |-> -1, changed |-> FALSE]}
       ELSE {[l |-> [c.l EXCEPT !.selection = c.index],
              index |-> c.index,
              changed |-> (c.hash # l.items[e].hash)] : c \in chooseNext(l, l.selection, e)}

\* A response body with fields.
BodyOp(bc, body, arg) ==
    [bc |-> bc, Body |-> body, Err |-> "", Client |-> 0, Arg |-> arg]

autoModeResponse(l) == [AutoMode |-> l.autoselect]

freezeResponse(l) == Freeze(l)

\* List.selectResponse: panics where Selection does.
selectResponse(l) ==
    LET s == Selection(l)
    IN [Index |-> s.index,
        Hash |-> IF s.nil THEN "(undefined)" ELSE l.items[s.index + 1].hash]

\* List.Dump: three replies; the third is not reached if Selection panics.
ListDump(l) ==
    LET two == <<BodyOp(FALSE, "AutoModeResponse", autoModeResponse(l)),
                 BodyOp(FALSE, "FreezeResponse", freezeResponse(l))>>
    IN IF Selection(l).panic
       THEN [l |-> l, out |-> two, err |-> "", panic |-> TRUE]
       ELSE [l |-> l, err |-> "", panic |-> FALSE,
             out |-> Append(two, BodyOp(FALSE, "SelectResponse", selectResponse(l)))]

handleAutoModeRequest(l, b) ==
    LET r == SetAutoMode(l, b.AutoMode)
    IN [l |-> r.l, err |-> "", panic |-> FALSE,
        out |-> IF r.changed
                THEN <<BodyOp(TRUE, "AutoModeResponse", autoModeResponse(r.l))>>
                ELSE << >>]

\* List.handleSelectRequest: it broadcasts if err != nil && changed.
handleSelectRequest(l, b) ==
    LET r == Select(l, b.Index, b.Hash)
        bcast == r.err # "" /\ r.changed
    IN [l |-> r.l, err |-> r.err, panic |-> bcast /\ Selection(r.l).panic,
        out |-> IF bcast /\ ~Selection(r.l).panic
                THEN <<BodyOp(TRUE, "SelectResponse", selectResponse(r.l))>>
                ELSE << >>]

\* An add that broadcasts the item whether or not Add took it.
handleAddItemRequestAnyway(l, b) ==
    [l |-> Add(l, b.Item, b.Index).l, err |-> Add(l, b.Item, b.Index).err,
     panic |-> FALSE,
     out |-> <<BodyOp(TRUE, "ItemResponse", [Index |-> b.Index, Item |-> b.Item])>>]

handleAddItemRequest(l, b) ==
    LET r == Add(l, b.Item, b.Index)
    IN [l |-> r.l, err |-> r.err, panic |-> FALSE,
        out |-> IF r.err = ""
                THEN <<BodyOp(TRUE, "ItemResponse", [Index |-> b.Index, Item |-> b.Item])>>
                ELSE << >>]

\* List.HandleRequest
ListHandleRequest(l, body) ==
    CASE body.t = "SetAutoModeRequest" -> handleAutoModeRequest(l, body)
      [] body.t = "SetSelectRequest" -> handleSelectRequest(l, body)
      [] body.t = "AddItemRequest" -> handleAddItemRequest(l, body)
      [] OTHER -> [l |-> l, err |-> "list can't handle this request",
                   panic |-> FALSE, out |-> << >>]

-----------------------------------------------------------------------------
(* The Bifrost side of a List Controller: parsing the messages of a        *)
(* connection into requests (list/bifrost.go, comm/bifrost.go) and         *)
(* emitting responses as messages.  A message is a record of its tag, its  *)
(* word and its arguments; an argument that the code reads or writes as a  *)
(* number is a sequence of characters, every other argument is a string.   *)

Message(tag, word, args) == [tag |-> tag, word |-> word, args |-> args]

\* message.TagBcast
TagBcast == "!"

Digits == [c \in {"0", "1", "2", "3", "4", "5", "6", "7", "8", "9"} |->
             CASE c = "0" -> 0 [] c = "1" -> 1 [] c = "2" -> 2 [] c = "3" -> 3
               [] c = "4" -> 4 [] c = "5" -> 5 [] c = "6" -> 6 [] c = "7" -> 7
               [] c = "8" -> 8 [] OTHER -> 9]

RECURSIVE DecimalValue(_)
DecimalValue(ds) ==
    IF ds = << >> THEN 0
    ELSE 10 * DecimalValue(SubSeq(ds, 1, Len(ds) - 1)) + Digits[ds[Len(ds)]]

\* strconv.Atoi: an optional sign, then one or more decimal digits.
Atoi(s) ==
    LET signed == Len(s) > 0 /\ s[1] \in {"+", "-"}
        ds == IF signed THEN Tail(s) ELSE s
    IN IF ds = << >> \/ \E k \in 1..Len(ds) : ds[k] \notin DOMAIN Digits
       THEN [n |-> 0, err |-> "invalid syntax"]
       ELSE [n |-> IF signed /\ s[1] = "-" THEN 0 - DecimalValue(ds)
                   ELSE DecimalValue(ds),
             err |-> ""]

RECURSIVE DecimalDigits(_)
DecimalDigits(n) ==
    LET d == CHOOSE c \in DOMAIN Digits : Digits[c] = n % 10
    IN IF n < 10 THEN <<d>> ELSE Append(DecimalDigits(n \div 10), d)

\* strconv.Itoa
Itoa(n) == IF n < 0 THEN <<"-">> \o DecimalDigits(0 - n) ELSE DecimalDigits(n)

\* A String that gives the names with a capital.
StringCapital(a) ==
    CASE a = AutoOff -> "Off"
      [] a = AutoDrop -> "Drop"
      [] a = AutoNext -> "Next"
      [] a = AutoShuffle -> "Shuffle"
      [] OTHER -> "?unknown?"

\* AutoMode.String
String(a) ==
    CASE a = AutoOff -> "off"
      [] a = AutoDrop -> "drop"
      [] a = AutoNext -> "next"
      [] a = AutoShuffle -> "shuffle"
      [] OTHER -> "?unknown?"

\* ParseAutoMode
ParseAutoMode(s) ==
    CASE s = "off" -> [mode |-> AutoOff, err |-> ""]
      [] s = "drop" -> [mode |-> AutoDrop, err |-> ""]
      [] s = "next" -> [mode |-> AutoNext, err |-> ""]
      [] s = "shuffle" -> [mode |-> AutoShuffle, err |-> ""]
      [] OTHER -> [mode |-> AutoOff, err |-> "invalid automode"]

\* The result of a parser: a request body, or an error ("" is nil).
Parsed(body) == [body |-> body, err |-> ""]
ParseError(err) == [body |-> [t |-> "nil"], err |-> err]

parseDumpMessage(args) ==
    IF Len(args) # 0 THEN ParseError("bad arity")
    ELSE Parsed([t |-> "DumpRequest"])

parseAutoMessage(args) ==
    IF Len(args) # 1 THEN ParseError("bad arity")
    ELSE LET a == ParseAutoMode(args[1])
         IN IF a.err # "" THEN ParseError(a.err)
            ELSE Parsed([t |-> "SetAutoModeRequest", AutoMode |-> a.mode])

parseSelMessage(args) ==
    IF Len(args) # 2 THEN ParseError("bad arity")
    ELSE LET index == Atoi(args[1])
         IN IF index.err # "" THEN ParseError(index.err)
            ELSE Parsed([t |-> "SetSelectRequest", Index |-> index.n,
                         Hash |-> args[2]])

\* parseItemAddMessage; track says which constructor con is.
parseItemAddMessage(track, args) ==
    IF Len(args) # 3 THEN ParseError("bad arity")
    ELSE LET index == Atoi(args[1])
         IN IF index.err # "" THEN ParseError(index.err)
            ELSE Parsed([t |-> "AddItemRequest", Index |-> index.n,
                         Item |-> IF track THEN NewTrack(args[2], args[3])
                                  ELSE NewText(args[2], args[3])])

parseFloadlMessage(args) == parseItemAddMessage(TRUE, args)
parseTloadlMessage(args) == parseItemAddMessage(FALSE, args)

\* List.ParseBifrostRequest
ParseBifrostRequest(word, args) ==
    CASE word = "auto" -> parseAutoMessage(args)
      [] word = "floadl" -> parseFloadlMessage(args)
      [] word = "sel" -> parseSelMessage(args)
      [] word = "tloadl" -> parseTloadlMessage(args)
      [] OTHER -> ParseError("unknown word")

\* Bifrost.bodyFromMessage
bodyFromMessage(m) ==
    IF m.word = "dump" THEN parseDumpMessage(m.args)
    ELSE ParseBifrostRequest(m.word, m.args)

\* An error message that goes out as a broadcast.
errorToMessageBroadcast(t, e) == [tag |-> "!", word |-> "ACK", args |-> <<"WHAT", e>>]

\* errorToMessage
errorToMessage(t, e) == Message(t, "ACK", <<"WHAT", e>>)

\* What an emitter does: the messages it sends and the error it returns.
Emitted(msgs) == [msgs |-> msgs, err |-> ""]

handleAutoMode(t, r) == Emitted(<<Message(t, "AUTO", <<String(r.AutoMode)>>)>>)

\* An emitter that takes every item for a track.
handleItemAsTrack(t, r) ==
    [msgs |-> <<[tag |-> t, word |-> "FLOADL",
                 args |-> <<Itoa(r.Index), r.Item.hash, r.Item.payload>>]>>,
     err |-> ""]

handleItem(t, r) ==
    CASE r.Item.itype = "track" ->
           Emitted(<<Message(t, "FLOADL",
                             <<Itoa(r.Index), r.Item.hash, r.Item.payload>>)>>)
      [] r.Item.itype = "text" ->
           Emitted(<<Message(t, "TLOADL",
                             <<Itoa(r.Index), r.Item.hash, r.Item.payload>>)>>)
      [] OTHER -> [msgs |-> << >>, err |-> "unknown item type"]

\* The loop of handleFreeze from item i on.
RECURSIVE freezeItems(_, _, _)
freezeItems(t, r, i) ==
    IF i >= Len(r) THEN Emitted(<< >>)
    ELSE LET one == handleItem(t, [Index |-> i, Item |-> r[i + 1]])
             rest == freezeItems(t, r, i + 1)
         IN IF one.err # "" THEN one
            ELSE [msgs |-> one.msgs \o rest.msgs, err |-> rest.err]

handleFreeze(t, r) ==
    LET items == freezeItems(t, r, 0)
    IN [msgs |-> <<Message(t, "COUNTL", <<Itoa(Len(r))>>)>> \o items.msgs,
        err |-> items.err]

handleSelect(t, r) == Emitted(<<Message(t, "SEL", <<Itoa(r.Index), r.Hash>>)>>)

\* List.EmitBifrostResponse; rs.Body is the type of the body, rs.Arg its
\* fields.
EmitBifrostResponse(tag, rs) ==
    CASE rs.Body = "AutoModeResponse" -> handleAutoMode(tag, rs.Arg)
      [] rs.Body = "FreezeResponse" -> handleFreeze(tag, rs.Arg)
      [] rs.Body = "ItemResponse" -> handleItem(tag, rs.Arg)
      [] rs.Body = "SelectResponse" -> handleSelect(tag, rs.Arg)
      [] OTHER -> [msgs |-> << >>, err |-> "response with no message equivalent"]

\* bifrostTagOf: the broadcast tag for a broadcast, else the origin's tag.
bifrostTagOf(rs) == IF rs.Broadcast THEN TagBcast ELSE rs.Origin.Tag

\* An acknowledgement that reports success whatever the Done carries.
handleAckAlwaysOK(t, r) ==
    [msgs |-> <<[tag |-> t, word |-> "ACK", args |-> <<"OK", "success">>]>>, err |-> ""]

\* Bifrost.handleAck: an error is returned, not emitted.
handleAck(t, r) ==
    IF r.Err # "" THEN [msgs |-> << >>, err |-> r.Err]
    ELSE Emitted(<<Message(t, "ACK", <<"OK", "success">>)>>)

\* Bifrost.handleRole
handleRole(t, r) == Emitted(<<Message(t, "IAMA", <<r.Arg.Role>>)>>)

\* Bifrost.handleResponse
handleResponse(rs) ==
    LET tag == bifrostTagOf(rs)
    IN CASE rs.Body = "Done" -> handleAck(tag, rs)
         [] rs.Body = "IamaResponse" -> handleRole(tag, rs)
         [] OTHER -> EmitBifrostResponse(tag, rs)

\* Bifrost.handleResponseForwardingError: the messages one response becomes.
handleResponseForwardingError(rs) ==
    LET h == handleResponse(rs)
    IN IF h.err # "" THEN Append(h.msgs, errorToMessage(bifrostTagOf(rs), h.err))
       ELSE h.msgs

\* ProcessRepliesUntilAck(ncreply, b.handleResponse): every body before the
\* Done goes to the callback, whose error is dropped; the Done ends the loop
\* and is not passed on.
RECURSIVE ProcessRepliesUntilAck(_)
ProcessRepliesUntilAck(rss) ==
    IF rss = << >> \/ Head(rss).Body = "Done" THEN << >>
    ELSE handleResponse(Head(rss)).msgs \o ProcessRepliesUntilAck(Tail(rss))

\* The main loop of Bifrost.Run over the responses rss, in order.
RECURSIVE forwardAll(_)
forwardAll(rss) ==
    IF rss = << >> THEN << >>
    ELSE handleResponseForwardingError(Head(rss)) \o forwardAll(Tail(rss))

\* Bifrost.sendOhai
sendOhai == <<Message(TagBcast, "OHAI", <<ThisProtocolVer, sversion>>)>>

-----------------------------------------------------------------------------
(* The line protocol: the tokeniser, which turns the bytes of a connection *)
(* into lines of words, and the packing of a message into bytes.  A byte   *)
(* is a string of one character; words, lines of bytes and the fields of   *)
(* the messages made of them are sequences of bytes.                       *)

\* NewTokeniser(): the word and the line being built, the quoting mode
\* ("none", "single", "double", "escape-next-in-double"), whether a
\* backslash outside double quotes is escaping the next byte, and the lines
\* completed.
NewTokeniser ==
    [word |-> << >>, line |-> << >>, quote |-> "none", escape |-> FALSE, lines |-> << >>]

\* The word being built, if any, is complete.
endWord(t) ==
    IF t.word = << >> THEN t
    ELSE [t EXCEPT !.line = Append(@, t.word), !.word = << >>]

\* The line being built is complete.
endLine(t) ==
    [endWord(t) EXCEPT !.lines = Append(@, endWord(t).line), !.line = << >>]

IsSpace(b) == b \in {" ", "\n", "\t"}

\* The tokeniser is fed byte b.
tokeniseByte(t, b) ==
    IF t.escape THEN [t EXCEPT !.word = Append(@, b), !.escape = FALSE]
    ELSE CASE t.quote = "none" ->
                IF b = "\\" THEN [t EXCEPT !.escape = TRUE]
                ELSE IF b = "'" THEN [t EXCEPT !.quote = "single"]
                ELSE IF b = "\"" THEN [t EXCEPT !.quote = "double"]
                ELSE IF b = "\n" THEN endLine(t)
                ELSE IF IsSpace(b) THEN endWord(t)
                ELSE [t EXCEPT !.word = Append(@, b)]
           [] t.quote = "single" ->
                IF b = "\\" THEN [t EXCEPT !.escape = TRUE]
                ELSE IF b = "'" THEN [t EXCEPT !.quote = "none"]
                ELSE [t EXCEPT !.word = Append(@, b)]
           [] t.quote = "double" ->
                IF b = "\\" THEN [t EXCEPT !.quote = "escape-next-in-double"]
                ELSE IF b = "\"" THEN [t EXCEPT !.quote = "none"]
                ELSE [t EXCEPT !.word = Append(@, b)]
           [] OTHER ->
                IF b \in {"\\", "\""}
                THEN [t EXCEPT !.word = Append(@, b), !.quote = "double"]
                ELSE [t EXCEPT !.word = @ \o <<"\\", b>>, !.quote = "double"]

\* The tokeniser is fed bytes, one after another.
RECURSIVE TokeniseBytes(_, _)
TokeniseBytes(t, bytes) ==
    IF bytes = << >> THEN t
    ELSE TokeniseBytes(tokeniseByte(t, Head(bytes)), Tail(bytes))

\* LineToMessage
LineToMessage(line) ==
    IF Len(line) < 2 THEN [msg |-> Message(<< >>, << >>, << >>), err |-> "insufficient words"]
    ELSE [msg |-> Message(line[1], line[2], SubSeq(line, 3, Len(line))), err |-> ""]

\* strings.Replace(input, "'", `'\''`, -1)
RECURSIVE replaceQuotes(_)
replaceQuotes(input) ==
    IF input = << >> THEN << >>
    ELSE (IF Head(input) = "'" THEN <<"'", "\\", "'", "'">> ELSE <<Head(input)>>)
         \o replaceQuotes(Tail(input))

\* An escapeArgument that leaves the single quotes of the argument alone.
escapeArgumentPlain(input) == <<"'">> \o input \o <<"'">>

\* escapeArgument
escapeArgument(input) == <<"'">> \o replaceQuotes(input) \o <<"'">>

\* The loop of Pack over the arguments: each with a space before it, escaped
\* if one of its bytes is a space, a quote or a backslash.
RECURSIVE packArgs(_)
packArgs(args) ==
    IF args = << >> THEN << >>
    ELSE LET a == Head(args)
             needed == \E k \in 1..Len(a) : IsSpace(a[k]) \/ a[k] \in {"'", "\"", "\\"}
         IN <<" ">> \o (IF needed THEN escapeArgument(a) ELSE a) \o packArgs(Tail(args))

\* Message.Pack
Pack(m) == m.tag \o <<" ">> \o m.word \o packArgs(m.args) \o <<"\n">>

-----------------------------------------------------------------------------
(* A Controller whose state is a List *)

\* Controller.handleRequest for the requests an adapter makes: the responses
\* it sends, the Done last, and the List afterwards.  A panic of the state
\* ends the Controller's task before the Done.
listRequest(l, body) ==
    CASE body.t = "RoleRequest" ->
           [l |-> l, panic |-> FALSE,
            out |-> <<BodyOp(FALSE, "IamaResponse", [Role |-> RoleName])>> \o Ack("")]
      [] body.t = "DumpRequest" ->
           LET d == ListDump(l)
           IN [l |-> d.l, panic |-> d.panic,
               out |-> IF d.panic THEN d.out ELSE d.out \o Ack("")]
      [] OTHER ->
           LET r == ListHandleRequest(l, body)
           IN [l |-> r.l, panic |-> r.panic,
               out |-> IF r.panic THEN r.out ELSE r.out \o Ack(r.err)]

\* What client d receives of the responses out to a request of origin o, in
\* the order the Controller sends them: every broadcast, on its Rx, and the
\* replies if o.ReplyTx is a channel of d.
Heard(d, o, out) ==
    LET all == [i \in 1..Len(out) |->
                  IF out[i].bc THEN broadcast(d, out[i]) ELSE reply(o, out[i])]
        mine == SelectSeq(all, LAMBDA s : s.ch[2] = d)
    IN [i \in 1..Len(mine) |-> mine[i].resp]

-----------------------------------------------------------------------------
(* The initial state: after NewController, before Run *)

NoRet == [op |-> "none", ok |-> FALSE, cli |-> 0]
NoHist == [rq |-> NoReq, out |-> << >>]
NoItem == [hash |-> "", payload |-> "", itype |-> "none"]
NoLast == [op |-> "none", index |-> 0, item |-> NoItem, hash |-> "", mode |-> 0,
           err |-> "", changed |-> FALSE, ret |-> 0, str |-> ""]
NoConv == [op |-> "none", bytes |-> << >>, lines |-> << >>, rest |-> FALSE,
           err |-> "", packed |-> << >>]
\* bifrost.NewClient and a context not yet cancelled: no Send in progress
\* (sending is the sequence of the message being sent, or empty), no
\* receiver at the endpoint's Rx, nothing received, no Send returned.
NewClient ==
    [cancelled |-> FALSE, sending |-> << >>, receiving |-> FALSE, received |-> << >>,
     sends |-> 0, returned |-> "none"]
NoInp == [conn |-> 0, connect |-> FALSE, msg |-> [tag |-> "", word |-> "", args |-> << >>]]

Init ==
    /\ clients = [h \in {1} |-> 0]
    /\ running = FALSE
    /\ cpc = "start"
    /\ cur = NoReq
    /\ todo = << >>
    /\ bleft = {}
    /\ btgt = 0
    /\ parser \in BOOLEAN
    /\ txClosed = [h \in Handles |-> FALSE]
    /\ rxClosed = [h \in Handles |-> 0]
    /\ doneClosed = [h \in Handles |-> 0]
    /\ kind = [h \in Handles |-> IF h = 1 THEN "owner" ELSE "none"]
    /\ upc = [h \in Handles |-> IF h = 1 THEN "idle" ELSE "none"]
    /\ uop = [h \in Handles |-> "none"]
    /\ urq = [h \in Handles |-> NoReq]
    /\ ncli = [h \in Handles |-> 0]
    /\ ret = [h \in Handles |-> NoRet]
    /\ nreq = 0
    /\ parent = [h \in Handles |-> 0]
    /\ shut = [h \in Handles |-> 0]
    /\ budget = MaxOps
    /\ outClosed = [h \in Handles |-> 0]
    /\ hist = NoHist
    /\ lst = New
    /\ conns = {}
    /\ inp = NoInp
    /\ wire = [h \in Handles |-> << >>]
    /\ panicked = FALSE
    /\ resps = [h \in Handles |-> << >>]
    /\ last = NoLast
    /\ conv = NoConv
    /\ ep = NewClient

-----------------------------------------------------------------------------
(* The users of a Client handle *)

\* The bodies a direct caller of Send or the wire side of an adapter may send.
OwnerBodies == {"RoleRequest", "DumpRequest", "OnRequest", "bifrostParserRequest",
                "knownDummy", "knownDummyBroadcast", "unknownRequest"}
AdapterBodies == {"DumpRequest", "knownDummy", "knownDummyBroadcast"}

\* Tags: a caller's own tag is the request's id; "" (Copy, Shutdown) is 0 and
\* the broadcast tag "!" (the adapter's handshake) is -1.
NewId == nreq + 1

\* The user of h makes a request and enters Client.Send with it.
StartSend(h, op, tag, rch, body) ==
    /\ nreq' = NewId
    /\ upc' = [upc EXCEPT ![h] = "send"]
    /\ uop' = [uop EXCEPT ![h] = op]
    /\ urq' = [urq EXCEPT ![h] = Request(NewId, h, tag, rch, body)]
    /\ ret' = [ret EXCEPT ![h] = NoRet]

\* A direct caller sends a request of its own on a fresh reply channel and then
\* reads that channel until the Done (TestClient_Send_Reply).
OwnerSend(h, body) ==
    /\ kind[h] = "owner" /\ upc[h] = "idle" /\ budget > 0
    /\ StartSend(h, "call", NewId, <<"fresh", NewId>>, body)
    /\ budget' = budget - 1
    /\ UNCHANGED <<cvars, chvars, kind, ncli, shut, outClosed, parent, hist>>
    /\ UNCHANGED lvars

\* Copies whose newClientRequest is not yet with the Controller.
CopiesInFlight == Cardinality({h \in Handles : upc[h] = "send" /\ uop[h] = "copy"})

\* Client.Copy, up to its Send.
OwnerCopy(h) ==
    /\ kind[h] = "owner" /\ upc[h] = "idle" /\ budget > 0
    /\ Made + CopiesInFlight < MaxClients
    /\ StartSend(h, "copy", 0, <<"fresh", NewId>>, "newClientRequest")
    /\ budget' = budget - 1
    /\ UNCHANGED <<cvars, chvars, kind, ncli, shut, outClosed, parent, hist>>
    /\ UNCHANGED lvars

\* Client.Shutdown, up to its Send.  c.Tx is never nil: nothing assigns it.
OwnerShutdown(h) ==
    /\ kind[h] = "owner" /\ upc[h] = "idle" /\ budget > 0
    /\ StartSend(h, "shutdown", 0, <<"fresh", NewId>>, "shutdownRequest")
    /\ budget' = budget - 1
    /\ UNCHANGED <<cvars, chvars, kind, ncli, shut, outClosed, parent, hist>>
    /\ UNCHANGED lvars

\* The user closes the Tx of its handle: the hang-up signal to the Controller.
OwnerClose(h) ==
    /\ kind[h] = "owner" /\ upc[h] = "idle" /\ budget > 0
    /\ txClosed' = [txClosed EXCEPT ![h] = TRUE]
    /\ upc' = [upc EXCEPT ![h] = "gone"]
    /\ budget' = budget - 1
    /\ UNCHANGED <<cvars, rxClosed, doneClosed, kind, uop, urq, ncli, ret, nreq, outClosed,
                   shut, parent, hist>>
    /\ UNCHANGED lvars

\* Bifrost.Run starts: handleNewClientResponses sends OHAI to the wire and then
\* a RoleRequest with the broadcast tag and the channel ncreply.
AdapterStart(h) ==
    /\ kind[h] = "adapter" /\ upc[h] = "hs"
    /\ StartSend(h, "hsRole", -1, <<"nc", h>>, "RoleRequest")
    /\ UNCHANGED <<cvars, chvars, kind, ncli, shut, budget, outClosed, parent, hist>>
    /\ UNCHANGED lvars

\* handleNewClientResponses after the role's Done: the DumpRequest, on ncreply.
AdapterDump(h) ==
    /\ kind[h] = "adapter" /\ upc[h] = "hs2"
    /\ StartSend(h, "hsDump", -1, <<"nc", h>>, "DumpRequest")
    /\ UNCHANGED <<cvars, chvars, kind, ncli, shut, budget, outClosed, parent, hist>>
    /\ UNCHANGED lvars

\* Bifrost.Run's main loop takes a message from the wire; handleRequest parses
\* it and sends the request with the message's tag and the channel b.reply.
AdapterWire(h, body) ==
    /\ kind[h] = "adapter" /\ upc[h] = "main" /\ budget > 0
    /\ StartSend(h, "req", NewId, <<"reply", h>>, body)
    /\ budget' = budget - 1
    /\ UNCHANGED <<cvars, chvars, kind, ncli, shut, outClosed, parent, hist>>
    /\ UNCHANGED lvars

\* A Run that returns and leaves the outward Tx open.
deferCloseNot(h, to) == outClosed

\* Run's 'defer b.close()': when the user of h goes to "exited", which is
\* Run returning, the adapter closes b.bifrost.Tx, the connection's Rx.
deferClose(h, to) ==
    IF to = "exited" /\ upc[h] # "exited"
    THEN [outClosed EXCEPT ![h] = @ + 1]
    ELSE outClosed

\* The user of h leaves its operation (or Run): its locals are gone.
Leave(h, to) ==
    /\ upc' = [upc EXCEPT ![h] = to]
    /\ uop' = [uop EXCEPT ![h] = "none"]
    /\ urq' = [urq EXCEPT ![h] = NoReq]
    /\ ncli' = [ncli EXCEPT ![h] = 0]
    /\ outClosed' = deferClose(h, to)

\* Bifrost.Run's main loop finds the wire side closed and returns.
AdapterWireClosed(h) ==
    /\ kind[h] = "adapter" /\ upc[h] = "main" /\ budget > 0
    /\ Leave(h, "exited")
    /\ budget' = budget - 1
    /\ UNCHANGED <<cvars, chvars, kind, ret, nreq, shut, parent, hist>>
    /\ UNCHANGED lvars

\* Bifrost.Run's main loop finds the client's Rx closed and returns.
AdapterRxClosed(h) ==
    /\ kind[h] = "adapter" /\ upc[h] = "main" /\ rxClosed[h] > 0
    /\ Leave(h, "exited")
    /\ UNCHANGED <<cvars, chvars, kind, ret, nreq, shut, budget, parent, hist>>
    /\ UNCHANGED lvars

\* A Shutdown that reports the failed Send as its own failure.
FailedAlways(op) == [op |-> op, ok |-> FALSE, cli |-> 0]

\* What an operation returns when its Send returned false: Copy (nil, error),
\* Shutdown nothing (it has no error to give), a direct Send false.
Failed(op) == [op |-> op, ok |-> (op = "shutdown"), cli |-> 0]

\* A Send whose select has a default case: it gives up when nobody receives.
DoneTakenOrDefault(h) == TRUE

\* Client.Send's case <-c.Done can be taken: the Done of h is closed.
DoneTaken(h) == doneClosed[h] > 0

\* Client.Send's select takes <-c.Done: Send returns false.  Copy then returns
\* its error, Shutdown returns without draining, an adapter leaves Run.
SendFail(h) ==
    /\ upc[h] = "send" /\ DoneTaken(h)
    /\ Leave(h, IF kind[h] = "adapter" THEN "exited" ELSE "idle")
    /\ ret' = [ret EXCEPT ![h] = Failed(uop[h])]
    /\ shut' = [shut EXCEPT ![h] = IF uop[h] = "shutdown" THEN @ + 1 ELSE @]
    /\ UNCHANGED <<cvars, chvars, kind, nreq, budget, parent, hist>>
    /\ UNCHANGED lvars

\* Whether the user of h is at a receive on channel ch: the server's main loop
\* drains the root's Rx, Bifrost.Run's select reads b.reply and the client's
\* Rx, and a caller in its receive loop reads the reply channel it made.
Listens(h, ch) ==
    \/ ch = <<"rx", h>> /\ kind[h] = "owner" /\ upc[h] = "idle"
    \/ ch = <<"rx", h>> /\ kind[h] = "adapter" /\ upc[h] = "main"
    \/ ch = <<"reply", h>> /\ kind[h] = "adapter" /\ upc[h] = "main"
    \/ upc[h] = "wait" /\ ch = urq[h].Origin.ReplyTx

IsDone(r) == r.Body = "Done"

\* Copy's loop: a newClientResponse sets ncli, the Done returns ncli.
CopyNcli(h, r) == IF r.Body = "newClientResponse" THEN r.Client ELSE ncli[h]

\* Where the user of h is after receiving r.  Outside an operation it stays
\* where it is; Shutdown takes one response; the other loops end at the Done
\* (ProcessRepliesUntilAck returns the Done's error to the handshake).
AfterRecv(h, r) ==
    CASE upc[h] # "wait" -> upc[h]
      [] uop[h] = "shutdown" -> "idle"
      [] ~IsDone(r) -> "wait"
      [] uop[h] \in {"call", "copy"} -> "idle"
      [] uop[h] = "hsRole" -> IF r.Err = "" THEN "hs2" ELSE "exited"
      [] uop[h] = "hsDump" -> IF r.Err = "" THEN "main" ELSE "exited"
      [] OTHER -> upc[h]

\* What the operation of h returns on its last response.
Returned(h) ==
    [op |-> uop[h], ok |-> TRUE, cli |-> IF uop[h] = "copy" THEN ncli[h] ELSE 0]

\* The user of h receives r: one step of its receive loop.  A Copy that
\* returns a client hands it to a new user, a direct caller or an adapter.
Recv(h, r) ==
    LET to == AfterRecv(h, r)
        inop == upc[h] = "wait"
        n == ncli[h]
    IN /\ IF inop /\ to # "wait"
          THEN /\ uop' = [uop EXCEPT ![h] = "none"]
               /\ urq' = [urq EXCEPT ![h] = NoReq]
               /\ ncli' = [ncli EXCEPT ![h] = 0]
               /\ ret' = [ret EXCEPT ![h] = IF to = "idle" THEN Returned(h) ELSE ret[h]]
               /\ shut' = [shut EXCEPT ![h] = IF uop[h] = "shutdown" THEN @ + 1 ELSE @]
          ELSE /\ ncli' = [ncli EXCEPT ![h] = IF inop /\ uop[h] = "copy"
                                             THEN CopyNcli(h, r) ELSE ncli[h]]
               /\ UNCHANGED <<uop, urq, ret, shut>>
       /\ IF inop /\ to = "idle" /\ uop[h] = "copy" /\ n # 0
          THEN \E k \in {"owner", "adapter"} :
                 /\ kind' = [kind EXCEPT ![n] = k]
                 /\ upc' = [upc EXCEPT ![h] = to,
                                       ![n] = IF k = "owner" THEN "idle" ELSE "hs"]
          ELSE /\ kind' = kind
               /\ upc' = [upc EXCEPT ![h] = to]
       /\ outClosed' = deferClose(h, to)
       /\ UNCHANGED <<nreq, budget>>

-----------------------------------------------------------------------------
(* The Controller task *)

\* Controller.Run starts: c.running = true.
CtlRun ==
    /\ cpc = "start"
    /\ running' = TRUE
    /\ cpc' = "loop"
    /\ UNCHANGED <<clients, cur, todo, bleft, btgt, parser, chvars, uvars, parent, hist>>
    /\ UNCHANGED lvars

\* A loop that selects again while a handler is still sending.
AtSelectWhileHandling == running /\ cpc \in {"loop", "handle"}

\* Run's loop is at reflect.Select: for c.running { reflect.Select(c.cselects) }
AtSelect == cpc = "loop" /\ running

\* The record of a response sent for the current request: op is the position,
\* among the sends the handler asks for, of the reply or broadcast call it
\* comes from.
OpIndex == Len(handleRequest(cur.Body, 0, parser).out) - Len(todo) + 1

Sent(m) == [op |-> OpIndex, ch |-> m.ch, resp |-> m.resp]

\* reflect.Select receives a request from the Tx of client h (Send returns true
\* in the sender) and handleRequest runs its handler up to the first send.
CtlRecv(h) ==
    /\ AtSelect
    /\ h \in DOMAIN clients
    /\ upc[h] = "send"
    /\ LET n == Made + 1
           r == handleRequest(urq[h].Body, n, parser)
       IN /\ cur' = urq[h]
          /\ hist' = [rq |-> urq[h], out |-> << >>]
          /\ cpc' = "handle"
          /\ todo' = r.out
          /\ running' = IF r.stop THEN FALSE ELSE running
          /\ IF r.add
             THEN /\ clients' \in rebuildClientSelects(DOMAIN clients \cup {n})
                  /\ parent' = [parent EXCEPT ![n] = h]
             ELSE UNCHANGED <<clients, parent>>
          /\ SetHead(r.out, clients')
    /\ upc' = [upc EXCEPT ![h] = IF uop[h] = "req" THEN "main" ELSE "wait"]
    /\ UNCHANGED <<parser, chvars, kind, uop, urq, ncli, ret, nreq, shut, budget,
                   outClosed>>
    /\ UNCHANGED lvars

\* Controller.reply: the response at the head of todo goes to the request's
\* ReplyTx, whose reader takes it.  After the Done, handleRequest returns.
CtlReply(h) ==
    /\ cpc = "handle" /\ todo # << >> /\ ~Head(todo).bc
    /\ LET m == reply(cur.Origin, Head(todo))
       IN /\ Listens(h, m.ch)
          /\ Recv(h, m.resp)
          /\ hist' = [hist EXCEPT !.out = Append(hist.out, Sent(m))]
    /\ todo' = Tail(todo)
    /\ IF Tail(todo) = << >>
       THEN cpc' = "loop" /\ cur' = NoReq
       ELSE UNCHANGED <<cpc, cur>>
    /\ SetHead(Tail(todo), clients)
    /\ UNCHANGED <<clients, running, parser, chvars, parent>>
    /\ UNCHANGED lvars

\* Controller.broadcast: one send of its loop, to the client it is blocked on;
\* then the loop goes on to another client, or the handler goes on.
CtlBroadcast ==
    /\ cpc = "handle" /\ todo # << >> /\ Head(todo).bc /\ btgt # 0
    /\ LET m == broadcast(btgt, Head(todo))
       IN /\ Listens(btgt, m.ch)
          /\ Recv(btgt, m.resp)
          /\ hist' = [hist EXCEPT !.out = Append(hist.out, Sent(m))]
    /\ IF bleft \ {btgt} = {}
       THEN /\ todo' = Tail(todo)
            /\ SetHead(Tail(todo), clients)
       ELSE /\ todo' = todo
            /\ bleft' = bleft \ {btgt}
            /\ btgt' \in bleft \ {btgt}
    /\ UNCHANGED <<clients, running, cpc, cur, parser, chvars, parent>>
    /\ UNCHANGED lvars

\* coclient.Close on each client of S: close(c.tx); close(c.done).
Close(S) ==
    /\ rxClosed' = [h \in Handles |-> IF h \in S THEN rxClosed[h] + 1 ELSE rxClosed[h]]
    /\ doneClosed' = [h \in Handles |-> IF h \in S THEN doneClosed[h] + 1
                                         ELSE doneClosed[h]]

\* A hang-up that stops the Controller whether or not a client is left.
hangUpClientStops(cl) ==
    /\ Close({cl})
    /\ clients' \in rebuildClientSelects(DOMAIN clients \ {cl})
    /\ running' = FALSE

\* A hang-up that closes the client and leaves it in the set.
hangUpClientKeeps(cl) ==
    /\ Close({cl})
    /\ clients' \in rebuildClientSelects(DOMAIN clients)
    /\ running' = running

\* Controller.hangUpClient(cl): close its channels, delete it, rebuild the
\* select cases; with no client left the Controller stops.
hangUpClient(cl) ==
    /\ Close({cl})
    /\ clients' \in rebuildClientSelects(DOMAIN clients \ {cl})
    /\ running' = IF DOMAIN clients \ {cl} = {} THEN FALSE ELSE running

\* reflect.Select finds the Tx of client h closed: hangUpClientWithCase(i) for
\* the index i of its select case.
CtlHangUp(h) ==
    /\ AtSelect
    /\ h \in DOMAIN clients /\ txClosed[h]
    /\ \E cl \in hangUpClientWithCase(clients[h]) : hangUpClient(cl)
    /\ hist' = NoHist
    /\ UNCHANGED <<cpc, cur, todo, bleft, btgt, parser, txClosed, uvars, parent>>
    /\ UNCHANGED lvars

\* A hangUpClients that empties the set without closing the clients.
hangUpClientsNoClose ==
    /\ UNCHANGED <<rxClosed, doneClosed>>
    /\ clients' \in rebuildClientSelects({})

\* Controller.hangUpClients: every client is closed and the set emptied.
hangUpClients ==
    /\ Close(DOMAIN clients)
    /\ clients' \in rebuildClientSelects({})

\* The loop of Run ends once running is false; Run hangs up and returns.
CtlExit ==
    /\ cpc = "loop" /\ ~running
    /\ hangUpClients
    /\ cpc' = "exited"
    /\ hist' = NoHist
    /\ UNCHANGED <<running, cur, todo, bleft, btgt, parser, txClosed, uvars, parent>>
    /\ UNCHANGED lvars

-----------------------------------------------------------------------------
Next ==
    \/ CtlRun
    \/ \E h \in Handles : CtlRecv(h)
    \/ \E h \in Handles : CtlReply(h)
    \/ CtlBroadcast
    \/ \E h \in Handles : CtlHangUp(h)
    \/ CtlExit
    \/ \E h \in Handles, b \in OwnerBodies : OwnerSend(h, b)
    \/ \E h \in Handles : OwnerCopy(h)
    \/ \E h \in Handles : OwnerShutdown(h)
    \/ \E h \in Handles : OwnerClose(h)
    \/ \E h \in Handles : AdapterStart(h)
    \/ \E h \in Handles : AdapterDump(h)
    \/ \E h \in Handles, b \in AdapterBodies : AdapterWire(h, b)
    \/ \E h \in Handles : AdapterWireClosed(h)
    \/ \E h \in Handles : AdapterRxClosed(h)
    \/ \E h \in Handles : SendFail(h)

Spec == Init /\ [][Next]_vars

\* The same program with its tasks scheduled: an adapter that can go on in
\* Run does so.  The handshake sends its next request, the main loop's select
\* takes the closed Rx (or a wire message, while there are any), and a Send
\* whose Done is closed and whose request nobody takes returns.
LiveSpec ==
    Spec /\ \A h \in Handles :
              /\ WF_vars(AdapterStart(h))
              /\ WF_vars(AdapterDump(h))
              /\ WF_vars(AdapterRxClosed(h))
              /\ WF_vars(SendFail(h))

-----------------------------------------------------------------------------
(* A List Controller behind Bifrost adapters, one request at a time.       *)
(*                                                                         *)
(* Spec above interleaves the Controller with its clients send by send.    *)
(* Here a step is everything one input leads to: the adapter of a          *)
(* connection parses a message, the Controller handles the request over    *)
(* its List and sends the responses, and every adapter emits what it       *)
(* receives.  The root client (1) is attached and drained by the server;   *)
(* the clients of conns are the copies the connections' adapters hold.     *)

Tags == {"t1"}
Hashes == {"a", "b"}
Payloads == {"p"}
Indices == {<<"-", "1">>, <<"0">>, <<"1">>, <<"x">>}
Words == {"dump", "auto", "sel", "floadl", "tloadl", "frob"}

\* The argument lists tried with a word: well-formed ones and malformed ones.
ArgsOf(word) ==
    CASE word = "dump" -> {<< >>, <<"now">>}
      [] word = "auto" ->
           {<< >>} \cup {<<a>> : a \in {"off", "shuffle", "bogus"}}
      [] word = "sel" -> {<<"0">>} \cup {<<i, h>> : i \in Indices, h \in Hashes}
      [] word \in {"floadl", "tloadl"} ->
           {<< >>} \cup {<<i, h, p>> : i \in Indices, h \in Hashes, p \in Payloads}
      [] OTHER -> {<< >>}

Connections == Handles \ {1}

\* The clients attached to the Controller: the root's and the connections'.
Attached == conns \cup {1}

\* A connection is accepted: its adapter runs handleNewClientResponses.
Connect(c) ==
    /\ ~panicked
    /\ c \in Connections \ conns
    /\ LET o == RequestOrigin(TagBcast, <<"nc", c>>)
           role == listRequest(lst, [t |-> "RoleRequest"])
           dump == listRequest(role.l, [t |-> "DumpRequest"])
       IN /\ lst' = dump.l
          /\ panicked' = dump.panic
          /\ resps' = [h \in Handles |->
                         IF h \in Attached \cup {c}
                         THEN Heard(h, o, role.out \o dump.out) ELSE << >>]
          /\ wire' = [h \in Handles |->
                        IF h = c
                        THEN sendOhai \o ProcessRepliesUntilAck(Heard(c, o, role.out))
                                      \o ProcessRepliesUntilAck(Heard(c, o, dump.out))
                        ELSE IF h \in conns
                        THEN forwardAll(Heard(h, o, role.out \o dump.out))
                        ELSE << >>]
    /\ conns' = conns \cup {c}
    /\ inp' = [conn |-> c, connect |-> TRUE, msg |-> Message("", "", << >>)]
    /\ UNCHANGED <<last, conv, ep, cvars, chvars, uvars, parent, hist>>

\* Bifrost.handleRequest on a message that does not parse: the error goes
\* back on the connection and nothing is sent.
WireError(c, m) ==
    /\ ~panicked
    /\ c \in conns
    /\ bodyFromMessage(m).err # ""
    /\ wire' = [h \in Handles |->
                  IF h = c THEN <<errorToMessage(m.tag, bodyFromMessage(m).err)>>
                  ELSE << >>]
    /\ resps' = [h \in Handles |-> << >>]
    /\ inp' = [conn |-> c, connect |-> FALSE, msg |-> m]
    /\ UNCHANGED <<lst, conns, panicked, last, conv, ep, cvars, chvars, uvars, parent, hist>>

\* Bifrost.handleRequest on a message that parses, and the Controller's
\* handling of the request it sends.
WireRequest(c, m) ==
    /\ ~panicked
    /\ c \in conns
    /\ bodyFromMessage(m).err = ""
    /\ LET o == RequestOrigin(m.tag, <<"reply", c>>)
           r == listRequest(lst, bodyFromMessage(m).body)
       IN /\ r.l.selection <= MaxSelection
          /\ lst' = r.l
          /\ panicked' = r.panic
          /\ resps' = [h \in Handles |->
                         IF h \in Attached THEN Heard(h, o, r.out) ELSE << >>]
          /\ wire' = [h \in Handles |->
                        IF h \in conns THEN forwardAll(Heard(h, o, r.out)) ELSE << >>]
    /\ inp' = [conn |-> c, connect |-> FALSE, msg |-> m]
    /\ UNCHANGED <<conns, last, conv, ep, cvars, chvars, uvars, parent, hist>>

\* The holder of the root client sends the Controller a request itself, with
\* a reply channel it has made (<<"fresh", 1>>) and a body of a type that is
\* none of the List's requests.
RootRequest(body) ==
    /\ ~panicked
    /\ LET o == RequestOrigin("", <<"fresh", 1>>)
           r == listRequest(lst, body)
       IN /\ r.l.selection <= MaxSelection
          /\ lst' = r.l
          /\ panicked' = r.panic
          /\ resps' = [h \in Handles |->
                         IF h \in Attached THEN Heard(h, o, r.out) ELSE << >>]
          /\ wire' = [h \in Handles |->
                        IF h \in conns THEN forwardAll(Heard(h, o, r.out)) ELSE << >>]
    /\ inp' = [conn |-> 1, connect |-> FALSE, msg |-> Message("", body.t, << >>)]
    /\ UNCHANGED <<conns, last, conv, ep, cvars, chvars, uvars, parent, hist>>

WireNext ==
    \/ \E c \in Connections : Connect(c)
    \/ RootRequest([t |-> "OnRequest"])
    \/ \E c \in Connections, t \in Tags, w \in Words : \E a \in ArgsOf(w) :
         WireError(c, Message(t, w, a))
    \/ \E c \in Connections, t \in Tags, w \in Words : \E a \in ArgsOf(w) :
         WireRequest(c, Message(t, w, a))

\* A List implements bifrost.Parser.
WireInit == Init /\ parser

WireSpec == WireInit /\ [][WireNext]_vars

-----------------------------------------------------------------------------
(* A List by itself: its operations called one after another, with any     *)
(* arguments.                                                              *)

\* The hashes of the items a List is given: a hash is any string, the empty
\* one included.
ItemHashes == {"", "a"}

Items == {NewTrack(h, p) : h \in ItemHashes, p \in Payloads}
           \cup {NewText(h, p) : h \in ItemHashes, p \in Payloads}
Modes == {AutoOff, AutoDrop, AutoNext, AutoShuffle}

\* The indices Add and Select are called with: from below 0 to past the
\* end of the longest List.
CallIndices == -1..(Cardinality(ItemHashes) + 1)

OnlyList ==
    UNCHANGED <<conns, inp, resps, wire, panicked, conv, ep, cvars, chvars, uvars, parent, hist>>

\* l.Add(item, i)
CallAdd(item, i) ==
    /\ Add(lst, item, i).l.selection <= MaxSelection
    /\ lst' = Add(lst, item, i).l
    /\ last' = [NoLast EXCEPT !.op = "Add", !.item = item, !.index = i,
                              !.err = Add(lst, item, i).err]
    /\ OnlyList

\* l.Select(index, hash)
CallSelect(index, hash) ==
    /\ lst' = Select(lst, index, hash).l
    /\ last' = [NoLast EXCEPT !.op = "Select", !.index = index, !.hash = hash,
                              !.err = Select(lst, index, hash).err,
                              !.changed = Select(lst, index, hash).changed]
    /\ OnlyList

\* l.SetAutoMode(mode)
CallSetAutoMode(mode) ==
    /\ lst' = SetAutoMode(lst, mode).l
    /\ last' = [NoLast EXCEPT !.op = "SetAutoMode", !.mode = mode,
                              !.changed = SetAutoMode(lst, mode).changed]
    /\ OnlyList

\* l.Next()
CallNext ==
    /\ \E o \in ListNext(lst) :
         /\ lst' = o.l
         /\ last' = [NoLast EXCEPT !.op = "Next", !.ret = o.index,
                                   !.changed = o.changed]
    /\ OnlyList

\* The strings ParseAutoMode is called with: the four names, and others.
AutoStrings == {"off", "drop", "next", "shuffle", "", "Off", "on", "?unknown?"}

\* ParseAutoMode(s)
CallParseAutoMode(s) ==
    /\ last' = [NoLast EXCEPT !.op = "ParseAutoMode", !.str = s,
                              !.mode = ParseAutoMode(s).mode,
                              !.err = ParseAutoMode(s).err]
    /\ UNCHANGED lst
    /\ OnlyList

\* ParseAutoMode(i.String()), as TestAutoModeParseIdempotence calls it; ret
\* is the mode i.
CallParseString(i) ==
    /\ last' = [NoLast EXCEPT !.op = "ParseString", !.ret = i, !.str = String(i),
                              !.mode = ParseAutoMode(String(i)).mode,
                              !.err = ParseAutoMode(String(i)).err]
    /\ UNCHANGED lst
    /\ OnlyList

ListStep ==
    \/ \E s \in AutoStrings : CallParseAutoMode(s)
    \/ \E i \in Modes : CallParseString(i)
    \/ \E item \in Items, i \in CallIndices : CallAdd(item, i)
    \/ \E i \in CallIndices, h \in ItemHashes : CallSelect(i, h)
    \/ \E mode \in Modes : CallSetAutoMode(mode)
    \/ CallNext

ListSpec == WireInit /\ [][ListStep]_vars

-----------------------------------------------------------------------------
(* Client.Bifrost: what it makes of the responses to its request *)

\* The callback cb of Client.Bifrost on a response body, st holding its
\* variables innerErr and bfset and whether bf and bfc have been assigned.
\* Nothing assigns bfset.
bifrostCallback(st, body) ==
    IF st.innerErr # "" THEN st
    ELSE [innerErr |-> IF st.bfset THEN "got a duplicate parser response"
                       ELSE IF body # "bifrostParserResponse"
                       THEN "got an unexpected response"
                       ELSE "",
          bfset |-> st.bfset,
          made |-> TRUE]

\* ProcessRepliesUntilAck(reply, cb) in Client.Bifrost over the responses rss
\* that come on reply: the callback's variables at the end and the error
\* returned.
RECURSIVE bifrostReplies(_, _)
bifrostReplies(rss, st) ==
    IF rss = << >> THEN [st |-> st, aerr |-> "reply channel closed before ack received"]
    ELSE IF Head(rss).Body = "Done" THEN [st |-> st, aerr |-> Head(rss).Err]
    ELSE bifrostReplies(Tail(rss), bifrostCallback(st, Head(rss).Body))

\* What Client.Bifrost returns after its Send when rss are the responses on
\* its reply channel: whether the adapter and the endpoint are not nil, and
\* the error ("" is nil).
ClientBifrost(rss) ==
    LET r == bifrostReplies(rss, [innerErr |-> "", bfset |-> FALSE, made |-> FALSE])
        fail(e) == [bf |-> FALSE, bfc |-> FALSE, err |-> e]
    IN IF r.aerr # "" THEN fail(r.aerr)
       ELSE IF r.st.innerErr # "" THEN fail(r.st.innerErr)
       ELSE IF ~r.st.bfset THEN fail("didn't get a parser response")
       ELSE [bf |-> r.st.made, bfc |-> r.st.made, err |-> ""]

-----------------------------------------------------------------------------
(* A Bifrost-level Client and its Endpoint: the user of the Client calls   *)
(* Send with a context, the holder of the Endpoint receives on its Rx, and *)
(* the context may be cancelled.                                           *)

\* The messages sent.
Jam == Message("!", "jam", <<"on", "toast">>)
Marmalade == Message("t1", "marmalade", << >>)

OnlyEndpoint ==
    UNCHANGED <<lst, conns, inp, resps, wire, panicked, last, conv,
                cvars, chvars, uvars, parent, hist>>

\* cancel()
Cancel ==
    /\ ~ep.cancelled
    /\ ep' = [ep EXCEPT !.cancelled = TRUE]
    /\ OnlyEndpoint

\* c.Send(ctx, r) is called and reaches its select.
SendStart(r) ==
    /\ ep.sending = << >> /\ ep.sends < MaxSends
    /\ ep' = [ep EXCEPT !.sending = <<r>>, !.sends = @ + 1, !.returned = "none"]
    /\ OnlyEndpoint

\* The holder of the endpoint comes to receive on its Rx.
Receive ==
    /\ ~ep.receiving
    /\ ep' = [ep EXCEPT !.receiving = TRUE]
    /\ OnlyEndpoint

\* The select of Send takes 'case c.Tx <- r', which it can with a receiver
\* at the other end of the channel, and Send returns true.
SendDelivers ==
    /\ ep.sending # << >> /\ ep.receiving
    /\ ep' = [ep EXCEPT !.sending = << >>, !.receiving = FALSE,
                        !.received = Append(@, ep.sending[1]), !.returned = "true"]
    /\ OnlyEndpoint

\* The select of Send takes 'case <-done', which it can once the context is
\* cancelled, and Send returns false.
SendCancelled ==
    /\ ep.sending # << >> /\ ep.cancelled
    /\ ep' = [ep EXCEPT !.sending = << >>, !.returned = "false"]
    /\ OnlyEndpoint

EndpointStep ==
    \/ Cancel
    \/ \E r \in {Jam, Marmalade} : SendStart(r)
    \/ Receive
    \/ SendDelivers
    \/ SendCancelled

EndpointSpec == WireInit /\ [][EndpointStep]_vars

-----------------------------------------------------------------------------
(* The line protocol by itself: lines of bytes are tokenised, the words of *)
(* a line are made a message, and the message is packed again.             *)

Bytes == {"a", " ", "'", "\"", "\\"}

\* A message with tag a, word a and no argument, as bytes.
TagAndWord == <<"a", " ", "a">>

\* The lines tried: every line of up to MaxLine bytes, and the tag and word
\* followed by every tail of up to MaxTail bytes.
LinesTried ==
    UNION {[1..n -> Bytes] : n \in 0..MaxLine}
      \cup {TagAndWord \o tail : tail \in UNION {[1..n -> Bytes] : n \in 1..MaxTail}}

\* A new tokeniser is fed the line and a line feed; the words of the line it
\* completes go to LineToMessage and the message to Pack.  rest says that
\* the tokeniser is left in the middle of a line.
PackTokenised(line) ==
    /\ LET t == TokeniseBytes(NewTokeniser, line \o <<"\n">>)
           m == LineToMessage(t.lines[1])
       IN conv' = [op |-> "Pack", bytes |-> line \o <<"\n">>, lines |-> t.lines,
                   rest |-> (t.quote # "none" \/ t.escape \/ t.word # << >> \/ t.line # << >>),
                   err |-> IF t.lines = << >> THEN "" ELSE m.err,
                   packed |-> IF t.lines = << >> \/ m.err # "" THEN << >> ELSE Pack(m.msg)]
    /\ UNCHANGED <<lst, conns, inp, resps, wire, panicked, last, ep,
                   cvars, chvars, uvars, parent, hist>>

\* One line is tried in a run.
LineStep == conv = NoConv /\ \E line \in LinesTried : PackTokenised(line)

LineSpec == WireInit /\ [][LineStep]_vars

-----------------------------------------------------------------------------
(* Properties.  hist holds the request the Controller received last and, in *)
(* order, every response it has sent for it with the channel it went to.    *)

\* The positions in hist.out of the Done responses.
DoneAt == {i \in 1..Len(hist.out) : IsDone(hist.out[i].resp)}

\* handleRequest has returned for the request of hist.
Completed == hist.rq # NoReq /\ cpc # "handle"

\* The sends of hist.out that go to channel ch, in order.
RECURSIVE Stream(_, _)
Stream(out, ch) ==
    IF out = << >> THEN << >>
    ELSE IF Head(out).ch = ch THEN <<Head(out).resp>> \o Stream(Tail(out), ch)
         ELSE Stream(Tail(out), ch)

\* C1: for every request the Controller receives it sends exactly one Done, on
\* the request's ReplyTx, and sends it after every other reply and broadcast
\* for that request: at most one Done has been sent, none while the handler
\* still has something to send, it is the last response sent, and once
\* handleRequest has returned there is one.
C1_ExactlyOneDoneLast ==
    /\ Cardinality(DoneAt) <= 1
    /\ \A i \in DoneAt :
          /\ i = Len(hist.out)
          /\ hist.out[i].ch = hist.rq.Origin.ReplyTx
          /\ ~hist.out[i].resp.Broadcast
    /\ cpc = "handle" => DoneAt = {}
    /\ Completed => DoneAt # {}

\* A request that broadcast to two clients or more has been acknowledged.
C1_Witness ==
    /\ Completed
    /\ Len(hist.out) >= 3
    /\ hist.out[1].resp.Broadcast
    /\ IsDone(hist.out[Len(hist.out)].resp)

\* C3: the Controller handles one request at a time: it receives a request
\* only from its select, with no handler running and the Done of the request
\* before sent; while a handler runs, cur is the one request being answered,
\* and a caller waiting for responses is the sender of that request.
C3_OneAtATime ==
    /\ [](/\ \A h \in Handles : upc[h] = "wait" => cpc = "handle" /\ cur = urq[h]
          /\ cpc = "handle" => cur # NoReq /\ cur = hist.rq /\ todo # << >>
          /\ cpc # "handle" => cur = NoReq /\ todo = << >>)
    /\ [][(hist'.rq # hist.rq /\ hist'.rq # NoReq) =>
             /\ cpc = "loop" /\ cpc' = "handle" /\ cur' = hist'.rq
             /\ hist.rq # NoReq => DoneAt # {}]_vars

\* A handler is sending while another attached client is in Send with the
\* next request.
C3_Witness ==
    /\ cpc = "handle"
    /\ \E h \in DOMAIN clients : upc[h] = "send" /\ cur.from # h

\* C4: every broadcast a handler issues is sent exactly once on the Rx of
\* every client attached at that moment, the requester included, with
\* Broadcast true and no origin: the sends of one broadcast call go to the Rx
\* of attached clients, no two to the same, and once the call is over every
\* attached client has had one.
C4_BroadcastOnceEach ==
    \A i \in 1..Len(hist.out) :
      LET s == hist.out[i]
          over == IF cpc = "handle" THEN OpIndex > s.op ELSE TRUE
      IN /\ s.resp.Broadcast = handleRequest(hist.rq.Body, 0, parser).out[s.op].bc
         /\ s.resp.Broadcast =>
              /\ s.resp.Origin = NilOrigin
              /\ \E c \in DOMAIN clients : s.ch = <<"rx", c>>
              /\ \A j \in 1..Len(hist.out) :
                    (j # i /\ hist.out[j].op = s.op) => hist.out[j].ch # s.ch
              /\ over => \A c \in DOMAIN clients :
                            \E j \in 1..Len(hist.out) :
                              /\ hist.out[j].op = s.op
                              /\ hist.out[j].ch = <<"rx", c>>
                              /\ hist.out[j].resp.Broadcast

\* A broadcast has gone to two attached clients or more, one the requester.
C4_Witness ==
    /\ Completed
    /\ hist.rq.Body = "knownDummyBroadcast"
    /\ Cardinality(DOMAIN clients) >= 2
    /\ Stream(hist.out, <<"rx", hist.rq.from>>) # << >>

\* The steps the program takes by itself once its users have made their calls:
\* the Controller's, an adapter's handshake, and the returns a closed channel
\* brings about.
ProgStep ==
    \/ CtlRun
    \/ \E h \in Handles : CtlRecv(h)
    \/ \E h \in Handles : CtlReply(h)
    \/ CtlBroadcast
    \/ \E h \in Handles : CtlHangUp(h)
    \/ CtlExit
    \/ \E h \in Handles : AdapterStart(h)
    \/ \E h \in Handles : AdapterDump(h)
    \/ \E h \in Handles : AdapterRxClosed(h)
    \/ \E h \in Handles : SendFail(h)

\* The deployment of the network server: its main loop holds the root client
\* and drains its Rx, and every other client is held by a Bifrost adapter
\* whose Run has not returned.
ServerWithAdapters ==
    /\ Cardinality(DOMAIN clients) >= 2
    /\ \A h \in Handles :
         /\ kind[h] = "owner" => h = 1 /\ upc[h] = "idle"
         /\ kind[h] = "adapter" => upc[h] # "exited"

\* C2: every request delivered to the Controller is eventually answered with
\* its Done, whatever the interleaving of two or more attached clients and of
\* the broadcasts their requests cause.  While a received request has not had
\* its Done, the Controller or the client it is sending to can take a step.
C2_EveryRequestAnswered ==
    (cpc = "handle" /\ ServerWithAdapters) => ENABLED ProgStep

\* The copies Copy has returned to a user.
Copies == {c \in Handles : parent[c] # 0 /\ kind[c] # "none"}

\* The broadcasts client h has been sent for the request of hist.
Bcasts(h) == Stream(hist.out, <<"rx", h>>)

\* C5 as stated: once Copy has returned a copy, the original and the copy are
\* sent the same sequence of broadcasts for every request handled afterwards.
C5_SameBroadcastsAlways ==
    \A c \in Copies : Completed => Bcasts(c) = Bcasts(parent[c])

\* C5: once Copy has returned a copy, the original and the copy are sent the
\* same sequence of broadcasts for every request handled while both of them
\* are attached to the Controller.
C5_SameBroadcastsWhileAttached ==
    \A c \in Copies :
      (Completed /\ {c, parent[c]} \subseteq DOMAIN clients) =>
        Bcasts(c) = Bcasts(parent[c])

\* A request has broadcast to an original and its copy.
C5_Witness ==
    \E c \in Copies :
      /\ Completed
      /\ {c, parent[c]} \subseteq DOMAIN clients
      /\ Bcasts(c) # << >>
      /\ Bcasts(parent[c]) # << >>

\* C6: a reply a handler issues through its reply callback for request R goes
\* only to R's ReplyTx, never to a client's Rx, as a Response with Broadcast
\* false and R's origin, and R's Done follows it: a knownDummyRequest is
\* answered by its knownDummyResponse and then the Done, both unicast.
C6_ReplyOnlyToReplyTx ==
    /\ \A i \in 1..Len(hist.out) :
         LET s == hist.out[i]
         IN ~s.resp.Broadcast =>
              /\ s.ch = hist.rq.Origin.ReplyTx
              /\ s.ch[1] # "rx"
              /\ s.resp.Origin = hist.rq.Origin
    /\ (Completed /\ hist.rq.Body = "knownDummy") =>
         /\ Len(hist.out) = 2
         /\ hist.out[1].resp.Body = "knownDummyResponse"
         /\ ~hist.out[1].resp.Broadcast
         /\ IsDone(hist.out[2].resp)

\* An adapter's knownDummyRequest was answered while another client was
\* attached.
C6_Witness ==
    /\ Completed
    /\ hist.rq.Body = "knownDummy"
    /\ hist.rq.Origin.ReplyTx = <<"reply", hist.rq.from>>
    /\ Cardinality(DOMAIN clients) >= 2

\* Shutdown has returned on some client.
AnyShut == \E h \in Handles : shut[h] > 0

\* C7: after Shutdown has returned on a client, a Send on that client or on
\* any copy terminates and returns false: the Controller has stopped and
\* receives nothing more, a Send in progress can return (at once, or once Run
\* has closed Done), and a Send that ends ends without the request having been
\* received.
C7_SendFailsAfterShutdown ==
    /\ [](AnyShut =>
            /\ ~running /\ cpc \in {"loop", "exited"}
            /\ \A h \in Handles :
                 upc[h] = "send" => ENABLED (CtlExit \/ SendFail(h)))
    /\ [][AnyShut =>
            \A h \in Handles :
              (upc[h] = "send" /\ upc'[h] # "send") =>
                /\ upc'[h] \in {"idle", "exited"}
                /\ ret'[h].op = uop[h] /\ ret'[h].cli = 0
                /\ ret'[h].ok = (uop[h] = "shutdown")
                /\ cur' = cur /\ cpc' = cpc /\ hist' = hist]_vars

\* After Shutdown returned on a client, a Send on a copy of it returned false.
C7_Witness ==
    \E c \in Copies :
      /\ shut[parent[c]] > 0
      /\ ret[c] = [op |-> "call", ok |-> FALSE, cli |-> 0]

\* C8 as stated: after Copy, Shutdown on the original leaves the copy working:
\* the copy stays attached, with its channels open.
C8_ShutdownLeavesCopy ==
    \A c \in Copies :
      (shut[parent[c]] > 0 /\ shut[c] = 0 /\ ~txClosed[c]) =>
        c \in DOMAIN clients /\ rxClosed[c] = 0 /\ doneClosed[c] = 0

\* C8: copies are independent under hang-up: while the Controller runs, every
\* client made that has not closed its own Tx is attached with its channels
\* open, whichever other clients have hung up; and the Controller stops only
\* for a shutdown request, which stops it for every client, or when its last
\* client has hung up.
C8_HangUpLeavesCopy ==
    /\ \A c \in Handles :
         (running /\ (c = 1 \/ parent[c] # 0) /\ ~txClosed[c]) =>
           c \in DOMAIN clients /\ rxClosed[c] = 0 /\ doneClosed[c] = 0
    /\ (cpc \in {"loop", "handle"} /\ ~running) =>
         \/ DOMAIN clients = {}
         \/ hist.rq # NoReq /\ hist.rq.Body = "shutdownRequest"

\* The original has hung up and a request of the copy was answered after it.
C8_Witness ==
    \E c \in Copies :
      /\ rxClosed[parent[c]] > 0
      /\ running
      /\ Completed /\ hist.rq.from = c
      /\ ret[c] = [op |-> "call", ok |-> TRUE, cli |-> 0]

\* C9: Shutdown is idempotent: a Shutdown on a client on which Shutdown has
\* returned terminates, returns normally, and changes nothing in the
\* Controller or its channels.
C9_ShutdownIdempotent ==
    /\ [](\A h \in Handles :
            (shut[h] > 0 /\ upc[h] = "send" /\ uop[h] = "shutdown") =>
              ENABLED (CtlExit \/ SendFail(h)))
    /\ [][\A h \in Handles :
            (shut[h] > 0 /\ uop[h] = "shutdown" /\ upc[h] = "send"
               /\ upc'[h] # "send") =>
              /\ upc'[h] = "idle"
              /\ ret'[h] = [op |-> "shutdown", ok |-> TRUE, cli |-> 0]
              /\ shut'[h] = shut[h] + 1
              /\ UNCHANGED <<cvars, chvars, parent>>]_vars

\* Shutdown has returned twice on one client.
C9_Witness == \E h \in Handles : shut[h] >= 2

\* C10: Copy on a client whose Controller has shut down terminates and fails,
\* with an error and no client; and whenever Copy returns a client, that
\* client is registered with the running Controller, its channels open.
C10_CopyNeverUnregistered ==
    /\ [](\A h \in Handles :
            (cpc = "exited" /\ upc[h] = "send" /\ uop[h] = "copy") =>
              ENABLED SendFail(h) /\ ~ENABLED CtlRecv(h))
    /\ [][\A h \in Handles :
            (uop[h] = "copy" /\ upc[h] \in {"send", "wait"} /\ upc'[h] = "idle") =>
              LET r == ret'[h]
              IN /\ r.op = "copy"
                 /\ IF r.ok
                    THEN /\ r.cli \in DOMAIN clients'
                         /\ running' /\ cpc' = "loop"
                         /\ rxClosed'[r.cli] = 0 /\ doneClosed'[r.cli] = 0
                         /\ kind'[r.cli] # "none"
                    ELSE r.cli = 0 /\ cpc = "exited"]_vars

\* Copy has failed on a client after Shutdown had returned on it.
C10_Witness ==
    \E h \in Handles :
      /\ shut[h] > 0
      /\ ret[h] = [op |-> "copy", ok |-> FALSE, cli |-> 0]

\* C11: Client.Send returns false if and only if the Controller has closed the
\* client's Done: a Send that returns true has handed its request to the
\* Controller, with Done open; a Send that returns false found Done closed and
\* its request was not received; and with Done closed Send cannot return true
\* and can return false.
C11_SendFalseIffDoneClosed ==
    /\ [](\A h \in Handles :
            (upc[h] = "send" /\ doneClosed[h] > 0) =>
              ENABLED SendFail(h) /\ ~ENABLED CtlRecv(h))
    /\ [][\A h \in Handles :
            (upc[h] = "send" /\ upc'[h] # "send") =>
              \/ /\ upc'[h] \in {"wait", "main"}
                 /\ doneClosed[h] = 0
                 /\ cur' = urq[h] /\ hist'.rq = urq[h]
              \/ /\ upc'[h] \in {"idle", "exited"}
                 /\ doneClosed[h] > 0
                 /\ ~ret'[h].ok \/ uop[h] = "shutdown"
                 /\ cur' = cur /\ hist' = hist /\ todo' = todo]_vars

\* A caller's Send has returned false on a client whose Done is closed.
C11_Witness ==
    \E h \in Handles :
      /\ doneClosed[h] > 0
      /\ ret[h] = [op |-> "call", ok |-> FALSE, cli |-> 0]

\* C12: when a client has closed its Tx, the Controller's select can hang it
\* up, and the hang-up closes that client's Rx and Done, removes that client
\* and no other from c.clients, leaves every other client's channels as they
\* were, and clears running if and only if no client is left.
C12_HangUpExactlyThatClient ==
    /\ [](\A h \in DOMAIN clients :
            (txClosed[h] /\ cpc = "loop" /\ running) => ENABLED CtlHangUp(h))
    /\ [][\A h \in DOMAIN clients :
            (h \notin DOMAIN clients' /\ cpc' # "exited") =>
              /\ txClosed[h] /\ running
              /\ DOMAIN clients' = DOMAIN clients \ {h}
              /\ rxClosed'[h] = rxClosed[h] + 1
              /\ doneClosed'[h] = doneClosed[h] + 1
              /\ rxClosed[h] = 0 /\ doneClosed[h] = 0
              /\ \A o \in Handles \ {h} :
                   rxClosed'[o] = rxClosed[o] /\ doneClosed'[o] = doneClosed[o]
              /\ running' = (DOMAIN clients' # {})]_vars

\* One client has been hung up while another stays attached, channels open,
\* to a running Controller.
C12_Witness ==
    /\ running
    /\ \E h \in Handles : txClosed[h] /\ rxClosed[h] = 1 /\ doneClosed[h] = 1
    /\ \E o \in DOMAIN clients : rxClosed[o] = 0 /\ doneClosed[o] = 0

\* C13: Controller.Run terminates once a shutdown request has been handled or
\* the last client has hung up, and not before: the Done of a shutdown request
\* can be sent, with running cleared the loop can only exit, with every
\* attached client's Tx closed the loop can hang one up or exit, and the exit
\* is taken only then; when Run has returned c.clients is empty and the Rx and
\* Done of every client ever made are closed.
C13_RunTerminatesAllClosed ==
    /\ []((cpc = "handle" /\ cur.Body = "shutdownRequest") =>
            ENABLED (\E h \in Handles : CtlReply(h)))
    /\ []((cpc = "loop" /\ ~running) =>
            ENABLED CtlExit /\ ~ENABLED (\E h \in Handles : CtlRecv(h)))
    /\ []((cpc \in {"loop", "handle"} /\ \A h \in DOMAIN clients : txClosed[h]) =>
            ENABLED (CtlExit \/ \E h \in Handles : CtlHangUp(h)))
    /\ [](cpc = "exited" =>
            /\ DOMAIN clients = {}
            /\ \A h \in Handles :
                 (h = 1 \/ parent[h] # 0) => rxClosed[h] = 1 /\ doneClosed[h] = 1)
    /\ [][(cpc # "exited" /\ cpc' = "exited") =>
            /\ cpc = "loop" /\ ~running
            /\ \/ DOMAIN clients = {}
               \/ hist.rq # NoReq /\ hist.rq.Body = "shutdownRequest"]_vars

\* Run has returned after a shutdown request with two clients or more made.
C13_Witness ==
    /\ cpc = "exited"
    /\ Made >= 2
    /\ AnyShut

-----------------------------------------------------------------------------
(* Properties of the List Controller behind its adapters (WireSpec) *)

\* C14: no sequence of requests, valid or failing (AddItem with any integer
\* index, SetSelect with any index and hash, Dump at any time), makes the
\* Controller task panic.
C14_NeverPanics == ~panicked

\* The network server with some connections gone: the main loop holds the
\* root client and drains its Rx, and the adapter of every other client is in
\* its main loop or has returned from Run.
ServerWithClosedConnections ==
    /\ Cardinality(DOMAIN clients) >= 2
    /\ \A h \in Handles :
         /\ kind[h] = "owner" => h = 1 /\ upc[h] = "idle"
         /\ kind[h] = "adapter" => upc[h] \in {"main", "exited"}

\* C15: the exit of one connection's adapter affects only that connection.
\* While the Controller handles a request and every remaining client is
\* receiving, the Controller can send its next response, whether or not the
\* adapters of other connections have returned.
C15_ExitAffectsOnlyItsConnection ==
    (cpc = "handle" /\ ServerWithClosedConnections) => ENABLED ProgStep

\* The step is the accepting of connection c.
Accepted(c) == c \notin conns /\ inp'.connect /\ inp'.conn = c

\* What a connection accepted when the List is l is to be sent first: OHAI,
\* IAMA and the dump of l, AUTO, COUNTL, the items and SEL, all tagged '!'
\* and none an ACK.
IsHandshake(w, l) ==
    /\ Len(w) = 5 + Count(l)
    /\ \A i \in 1..Len(w) : w[i].tag = "!" /\ w[i].word # "ACK"
    /\ w[1].word = "OHAI" /\ w[1].args = <<"bifrost-0.0.0", "yaps-0.0.0">>
    /\ w[2].word = "IAMA" /\ w[2].args = <<"list">>
    /\ w[3].word = "AUTO" /\ Len(w[3].args) = 1
    /\ w[3].args[1] = CASE l.autoselect = AutoOff -> "off"
                        [] l.autoselect = AutoShuffle -> "shuffle"
                        [] OTHER -> "other"
    /\ w[4].word = "COUNTL" /\ Atoi(w[4].args[1]).n = Count(l)
    /\ \A k \in 1..Count(l) :
         /\ w[4 + k].word = IF l.items[k].itype = "track" THEN "FLOADL" ELSE "TLOADL"
         /\ Atoi(w[4 + k].args[1]).n = k - 1
         /\ w[4 + k].args[2] = l.items[k].hash
         /\ w[4 + k].args[3] = l.items[k].payload
    /\ w[5 + Count(l)].word = "SEL"
    /\ Atoi(w[5 + Count(l)].args[1]).n = l.selection
    /\ l = New => /\ w[4].args[1] = <<"0">>
                  /\ w[5].args[1] = <<"-", "1">>
                  /\ w[5].args[2] = "(undefined)"

\* C16: on a new connection the adapter emits first, in this order and all
\* with the broadcast tag: OHAI with protocol and server version, IAMA with
\* the role, then the full dump (AUTO off, COUNTL 0, SEL -1 (undefined) for a
\* new list); the Done of the Role and Dump requests is not emitted.
C16_HandshakeFirst ==
    [][\A c \in Connections : Accepted(c) => IsHandshake(wire'[c], lst)]_vars

\* The step is the arrival of a message on a connection.
Arrived == inp'.conn \in conns /\ ~inp'.connect

\* The arity the parsers ask of a word.
Arity(word) ==
    CASE word = "dump" -> 0
      [] word = "auto" -> 1
      [] word = "sel" -> 2
      [] OTHER -> 3

\* A message the parsers are to refuse: an unknown word, a bad arity, an
\* invalid automode, or an index that is not a number.
Malformed(m) ==
    \/ m.word \notin {"dump", "auto", "sel", "floadl", "tloadl"}
    \/ Len(m.args) # Arity(m.word)
    \/ m.word = "auto" /\ m.args[1] \notin {"off", "drop", "next", "shuffle"}
    \/ /\ m.word \in {"sel", "floadl", "tloadl"}
       /\ \E k \in 1..Len(m.args[1]) : m.args[1][k] \notin (DOMAIN Digits \cup {"-", "+"})

\* C17: when an inbound message fails to parse, the adapter emits
\* 'tag ACK WHAT error' with the message's own tag on its own connection
\* only, and the Controller, its List and the connections are as before.
C17_ParseErrorStaysLocal ==
    [][Arrived /\ Malformed(inp'.msg) =>
         /\ Len(wire'[inp'.conn]) = 1
         /\ wire'[inp'.conn][1].tag = inp'.msg.tag
         /\ wire'[inp'.conn][1].word = "ACK"
         /\ Len(wire'[inp'.conn][1].args) = 2
         /\ wire'[inp'.conn][1].args[1] = "WHAT"
         /\ wire'[inp'.conn][1].args[2] # ""
         /\ \A h \in Handles \ {inp'.conn} : wire'[h] = << >>
         /\ lst' = lst /\ conns' = conns /\ ~panicked'
         /\ UNCHANGED <<cvars, chvars, hist>>]_vars

\* A message with an index that is no number has been refused on one of two
\* connections, the List holding an item.
C17_Witness ==
    /\ inp.conn \in conns /\ ~inp.connect
    /\ inp.msg.word = "sel" /\ Len(inp.msg.args) = 2 /\ inp.msg.args[1] = <<"x">>
    /\ Len(wire[inp.conn]) = 1 /\ wire[inp.conn][1].word = "ACK"
    /\ Cardinality(conns) = 2 /\ Count(lst) > 0

\* How many messages a response becomes: a frozen list is its count and its
\* items, a Done is one message, and so is every other response.
Size(rs) == IF rs.Body = "FreezeResponse" THEN 1 + Len(rs.Arg) ELSE 1

\* Whether the messages w are the responses rss, in order, each with the
\* broadcast tag if it is a broadcast and with tag t if not, a Done being
\* 't ACK OK success' or 't ACK WHAT e' and nothing else an ACK.
RECURSIVE Tagged(_, _, _)
Tagged(rss, w, t) ==
    IF rss = << >> THEN Len(w) = 0
    ELSE LET rs == Head(rss)
             tag == IF rs.Broadcast THEN "!" ELSE t
         IN /\ Len(w) >= Size(rs)
            /\ \A i \in 1..Size(rs) : w[i].tag = tag
            /\ IF rs.Body = "Done"
               THEN /\ w[1].word = "ACK"
                    /\ Len(w[1].args) = 2
                    /\ w[1].args[1] = IF rs.Err = "" THEN "OK" ELSE "WHAT"
                    /\ w[1].args[2] = IF rs.Err = "" THEN "success" ELSE rs.Err
               ELSE \A i \in 1..Size(rs) : w[i].word # "ACK"
            /\ Tagged(Tail(rss), SubSeq(w, Size(rs) + 1, Len(w)), t)

\* The connections whose adapter was in its main loop in the last step, if
\* that step sent the Controller a request.
InMainLoop ==
    {h \in conns : IF inp.connect THEN inp.conn # h ELSE ~Malformed(inp.msg)}

\* C18: every response of the Controller is emitted with the broadcast tag
\* '!' if it is a broadcast and with the tag of the request otherwise; a Done
\* without error becomes 'tag ACK OK success', a Done with error e becomes
\* 'tag ACK WHAT e', one message for each Done.
C18_TagsAndAcks ==
    \A h \in InMainLoop : Tagged(resps[h], wire[h], inp.msg.tag)

\* A request of one connection was broadcast to the other and acknowledged
\* to the first.
C18_Witness ==
    /\ ~inp.connect /\ inp.conn \in conns
    /\ \E h \in conns \ {inp.conn} :
         Len(wire[h]) = 1 /\ wire[h][1].tag = "!" /\ wire[h][1].word = "FLOADL"
    /\ Len(wire[inp.conn]) = 2
    /\ wire[inp.conn][1].tag = "!"
    /\ wire[inp.conn][2].tag = "t1" /\ wire[inp.conn][2].word = "ACK"
    /\ wire[inp.conn][2].args[1] = "OK"

\* Message m asks to select, in List l, an item that is there, has the hash
\* given, can be selected and is not the selection already.
SelectsAnew(m, l) ==
    /\ m.word = "sel" /\ Len(m.args) = 2 /\ Atoi(m.args[1]).err = ""
    /\ LET i == Atoi(m.args[1]).n
       IN /\ i \in 0..(Count(l) - 1)
          /\ l.items[i + 1].hash = m.args[2]
          /\ l.items[i + 1].itype = "track"
          /\ l.selection # i

\* Whether w holds the broadcast message 'SEL index hash'.
HasSel(w, index, hash) ==
    \E i \in 1..Len(w) : /\ w[i].tag = "!" /\ w[i].word = "SEL"
                         /\ Atoi(w[i].args[1]).n = index /\ w[i].args[2] = hash

\* Whether the last message of w is 'tag ACK OK success'.
EndsWithOK(w, tag) ==
    /\ Len(w) > 0
    /\ w[Len(w)].tag = tag /\ w[Len(w)].word = "ACK"
    /\ w[Len(w)].args[1] = "OK" /\ w[Len(w)].args[2] = "success"

\* C19: a successful select request that changes the selection broadcasts
\* the new selection (SEL index hash) to every attached client, and the
\* requester then receives ACK OK success.
C19_SelectBroadcasts ==
    [][Arrived /\ SelectsAnew(inp'.msg, lst) =>
         /\ \A h \in Attached :
              \E i \in 1..Len(resps'[h]) : /\ resps'[h][i].Broadcast
                                           /\ resps'[h][i].Body = "SelectResponse"
         /\ \A h \in conns :
              HasSel(wire'[h], Atoi(inp'.msg.args[1]).n, inp'.msg.args[2])
         /\ EndsWithOK(wire'[inp'.conn], inp'.msg.tag)]_vars

\* Message m asks for one of the automodes.
SetsAutoMode(m) ==
    m.word = "auto" /\ Len(m.args) = 1 /\ m.args[1] \in {"off", "drop", "next", "shuffle"}

\* Whether w holds an AUTO message, and whether it holds '! AUTO mode'.
HasAnyAuto(w) == \E i \in 1..Len(w) : w[i].word = "AUTO"
HasAuto(w, mode) ==
    \E i \in 1..Len(w) : w[i].tag = "!" /\ w[i].word = "AUTO" /\ w[i].args = <<mode>>

\* C20: a set-automode request broadcasts the new mode (AUTO mode) to every
\* client if and only if the mode changed; in both cases the requester
\* receives ACK OK success, and a request for the current mode broadcasts
\* nothing.
C20_AutoBroadcastIffChanged ==
    [][Arrived /\ SetsAutoMode(inp'.msg) =>
         LET mode == inp'.msg.args[1]
             changed == String(lst.autoselect) # mode
         IN /\ String(lst'.autoselect) = mode
            /\ \A h \in Attached :
                 changed <=> \E i \in 1..Len(resps'[h]) :
                                /\ resps'[h][i].Broadcast
                                /\ resps'[h][i].Body = "AutoModeResponse"
            /\ \A h \in conns : /\ changed <=> HasAuto(wire'[h], mode)
                                /\ changed <=> HasAnyAuto(wire'[h])
                                /\ Len(wire'[h]) = (IF changed THEN 1 ELSE 0)
                                                 + (IF h = inp'.conn THEN 1 ELSE 0)
            /\ EndsWithOK(wire'[inp'.conn], inp'.msg.tag)]_vars

\* A request of one of two connections has changed the automode to shuffle,
\* and the other connection was sent the broadcast.
C20_Witness ==
    /\ ~inp.connect /\ inp.conn \in conns /\ Cardinality(conns) = 2
    /\ inp.msg.word = "auto" /\ Len(inp.msg.args) = 1 /\ inp.msg.args[1] = "shuffle"
    /\ lst.autoselect = AutoShuffle
    /\ \A h \in conns \ {inp.conn} :
         Len(wire[h]) = 1 /\ wire[h][1].word = "AUTO" /\ wire[h][1].args[1] = "shuffle"
    /\ Len(wire[inp.conn]) = 2 /\ wire[inp.conn][2].word = "ACK"

\* Message m asks to add an item with a hash List l does not hold, at an
\* index from 0 to the count of l.
AddsItem(m, l) ==
    /\ m.word \in {"floadl", "tloadl"} /\ Len(m.args) = 3 /\ Atoi(m.args[1]).err = ""
    /\ Atoi(m.args[1]).n \in 0..Count(l)
    /\ \A k \in 1..Count(l) : l.items[k].hash # m.args[2]

\* Whether w holds the broadcast message 'word index hash payload'.
HasItem(w, word, index, hash, payload) ==
    \E i \in 1..Len(w) : /\ w[i].tag = "!" /\ w[i].word = word
                         /\ Len(w[i].args) = 3
                         /\ Atoi(w[i].args[1]).err = ""
                         /\ Atoi(w[i].args[1]).n = index
                         /\ w[i].args[2] = hash /\ w[i].args[3] = payload

\* C21: a successful add-item request broadcasts the added item with its
\* index, hash and payload to every attached client, as FLOADL for a track
\* and as TLOADL for a text item, and the index broadcast is the index at
\* which the item now sits in the list.
C21_AddBroadcastsItem ==
    [][Arrived /\ AddsItem(inp'.msg, lst) =>
         LET m == inp'.msg
             index == Atoi(m.args[1]).n
             word == IF m.word = "floadl" THEN "FLOADL" ELSE "TLOADL"
         IN /\ Count(lst') = Count(lst) + 1
            /\ lst'.items[index + 1].hash = m.args[2]
            /\ lst'.items[index + 1].payload = m.args[3]
            /\ lst'.items[index + 1].itype = (IF m.word = "floadl" THEN "track" ELSE "text")
            /\ \A h \in Attached :
                 \E i \in 1..Len(resps'[h]) :
                    /\ resps'[h][i].Broadcast
                    /\ resps'[h][i].Body = "ItemResponse"
                    /\ resps'[h][i].Arg.Index = index
                    /\ resps'[h][i].Arg.Item = lst'.items[index + 1]
            /\ \A h \in conns : HasItem(wire'[h], word, index, m.args[2], m.args[3])
            /\ EndsWithOK(wire'[inp'.conn], m.tag)]_vars

\* A text item was added behind another item on a request of one of two
\* connections, and the other connection was sent the TLOADL.
C21_Witness ==
    /\ ~inp.connect /\ inp.conn \in conns /\ Cardinality(conns) = 2
    /\ inp.msg.word = "tloadl" /\ Len(inp.msg.args) = 3 /\ inp.msg.args[1] = <<"1">>
    /\ Count(lst) = 2 /\ lst.items[2].itype = "text"
    /\ \A h \in conns \ {inp.conn} :
         Len(wire[h]) = 1 /\ wire[h][1].word = "TLOADL" /\ wire[h][1].args[1] = <<"1">>

\* The step is a request that reaches the Controller: a well-formed message
\* of a connection, or the root's own request.
Requested == ~inp'.connect /\ (inp'.conn \in conns => ~Malformed(inp'.msg))
                           /\ inp'.conn \in Attached

\* The error the request of message m is to fail with on List l ("" if it is
\* not to fail): a duplicate hash, an index out of range, a hash mismatch, an
\* item that cannot be selected, a body the list cannot handle.
Failure(m, l) ==
    LET i == Atoi(m.args[1]).n
    IN CASE m.word \in {"floadl", "tloadl"} ->
              IF \E k \in 1..Count(l) : l.items[k].hash = m.args[2]
              THEN "duplicate hash"
              ELSE IF i \notin 0..Count(l)
              THEN "Tried to insert element past the end"
              ELSE ""
         [] m.word = "sel" ->
              IF i \notin 0..(Count(l) - 1) THEN "Select: index out of bounds"
              ELSE IF l.items[i + 1].hash # m.args[2] THEN "Select: hash mismatch"
              ELSE IF l.items[i + 1].itype = "text" THEN "Select: item not selectable"
              ELSE ""
         [] m.word \in {"dump", "auto"} -> ""
         [] OTHER -> "list can't handle this request"

\* C22: a request that fails semantically (duplicate hash, index out of
\* range, hash mismatch, unselectable item, a body the list cannot handle)
\* produces no broadcast to any client, and the requester's Done carries the
\* error.
C22_FailureNotBroadcast ==
    [][Requested /\ Failure(inp'.msg, lst) # "" =>
         /\ \A h \in Attached \ {inp'.conn} : resps'[h] = << >>
         /\ \A h \in conns \ {inp'.conn} : wire'[h] = << >>
         /\ Len(resps'[inp'.conn]) = 1
         /\ ~resps'[inp'.conn][1].Broadcast
         /\ resps'[inp'.conn][1].Body = "Done"
         /\ resps'[inp'.conn][1].Err = Failure(inp'.msg, lst)
         /\ Count(lst') = Count(lst)]_vars

\* One of two connections asked to select a text item and was refused.
C22_Witness ==
    /\ ~inp.connect /\ inp.conn \in conns /\ Cardinality(conns) = 2
    /\ inp.msg.word = "sel" /\ Len(inp.msg.args) = 2 /\ inp.msg.args[1] = <<"0">>
    /\ Count(lst) > 0 /\ lst.items[1].itype = "text" /\ lst.items[1].hash = inp.msg.args[2]
    /\ Len(wire[inp.conn]) = 1 /\ wire[inp.conn][1].word = "ACK"
    /\ wire[inp.conn][1].args[2] = "Select: item not selectable"

-----------------------------------------------------------------------------
(* Properties of the List by itself (ListSpec) *)

\* No two items of List l share a hash.
NoTwoShareHash(l) ==
    \A i, j \in 1..Count(l) : i # j => l.items[i].hash # l.items[j].hash

\* C23: after any sequence of Add, Select, SetAutoMode and Next, successful
\* or failing, no two items of the List share a hash; an Add of an item whose
\* hash is already present fails and does not insert.
C23_HashesUnique ==
    /\ []NoTwoShareHash(lst)
    /\ [][(last'.op = "Add" /\ \E k \in 1..Count(lst) : lst.items[k].hash = last'.item.hash)
            => last'.err # "" /\ lst'.items = lst.items]_vars

\* An Add of a hash that the List of two items holds has failed.
C23_Witness ==
    /\ last.op = "Add" /\ last.err = "duplicate hash"
    /\ Count(lst) = 2
    /\ \E k \in 1..Count(lst) : lst.items[k].hash = last.item.hash

\* C24: after any sequence of Add, Select, SetAutoMode and Next, if
\* Selection() returns (i, item) with an item, then i is at least 0 and less
\* than Count(), the item at index i is that item, and the item is
\* selectable (not a text item).
C24_SelectionSelectable ==
    LET s == Selection(lst)
    IN (~s.panic /\ ~s.nil) =>
          /\ s.index >= 0 /\ s.index < Count(lst)
          /\ s.index = lst.selection
          /\ IsSelectable(lst.items[s.index + 1])

\* Sequence s without its element at position p.
Without(s, p) == SubSeq(s, 1, p - 1) \o SubSeq(s, p + 1, Len(s))

\* The step is an Add of an item whose hash the List does not hold.
AddedFresh ==
    last'.op = "Add" /\ \A k \in 1..Count(lst) : lst.items[k].hash # last'.item.hash

\* C25: Add(item, index) with a fresh hash succeeds exactly when
\* 0 <= index <= Count(); afterwards the item sits at position index, the
\* other items keep their relative order and Count() has grown by one; any
\* other index fails.
C25_AddAtIndex ==
    [][AddedFresh =>
         /\ last'.err = "" <=> (0 <= last'.index /\ last'.index <= Count(lst))
         /\ last'.err = "" => /\ Count(lst') = Count(lst) + 1
                              /\ lst'.items[last'.index + 1] = last'.item
                              /\ Without(lst'.items, last'.index + 1) = lst.items
         /\ last'.err # "" => lst'.items = lst.items]_vars

\* An item has been appended to a List of one item.
C25_Witness ==
    /\ last.op = "Add" /\ last.err = "" /\ last.index = 1
    /\ Count(lst) = 2 /\ lst.items[2] = last.item

\* The hash of the item at the selection of List l, "" if there is none.
SelectedHash(l) ==
    IF l.selection >= 0 /\ l.selection < Count(l) THEN <<l.items[l.selection + 1].hash>>
    ELSE << >>

\* C26: a successful Add at an index at or before the selection increases
\* the selection index by one, and an Add after the selection leaves it
\* unchanged, so that the selected item (its hash) is the same before and
\* after every successful Add.
C26_AddKeepsSelectedItem ==
    [][(last'.op = "Add" /\ last'.err = "") =>
         /\ lst'.selection = IF last'.index <= lst.selection THEN lst.selection + 1
                             ELSE lst.selection
         /\ SelectedHash(lst') = SelectedHash(lst)]_vars

\* An item has been added in front of the selected item.
C26_Witness ==
    /\ last.op = "Add" /\ last.err = "" /\ last.index = 0
    /\ Count(lst) = 2 /\ lst.selection = 1
    /\ SelectedHash(lst) # << >> /\ SelectedHash(lst) # <<last.item.hash>>

\* C27: Select(index, hash) fails with index-out-of-bounds when no item is
\* at index (negative indices included), with hash-mismatch when the item's
\* hash differs, and with item-not-selectable for a text item, leaving the
\* selection unchanged in all three cases; on success the selection becomes
\* index and the flag returned is true exactly when the selection changed.
C27_SelectOutcomes ==
    [][last'.op = "Select" =>
         LET i == last'.index
         IN IF i < 0 \/ i >= Count(lst)
            THEN /\ last'.err = "Select: index out of bounds"
                 /\ lst' = lst /\ ~last'.changed
            ELSE IF lst.items[i + 1].hash # last'.hash
            THEN /\ last'.err = "Select: hash mismatch"
                 /\ lst' = lst /\ ~last'.changed
            ELSE IF lst.items[i + 1].itype = "text"
            THEN /\ last'.err = "Select: item not selectable"
                 /\ lst' = lst /\ ~last'.changed
            ELSE /\ last'.err = ""
                 /\ lst'.selection = i
                 /\ lst'.items = lst.items
                 /\ last'.changed <=> (i # lst.selection)]_vars

\* The second item of a List has been selected, the selection having been elsewhere.
C27_Witness ==
    /\ last.op = "Select" /\ last.err = "" /\ last.changed
    /\ last.index = 1 /\ lst.selection = 1 /\ Count(lst) = 2

\* C28: Next() advances the selection by the autoselect mode. With an item
\* selected, Off changes nothing and returns (current, false), Drop sets the
\* selection to -1 and returns (-1, true), and Next increments the
\* selection, -1 past the end of the list, and returns the new value with
\* the flag that says the selection changed.
C28_NextAdvancesByMode ==
    [][(last'.op = "Next" /\ lst.selection >= 0 /\ lst.selection < Count(lst)) =>
         /\ lst'.items = lst.items /\ lst'.autoselect = lst.autoselect
         /\ lst.autoselect = AutoOff =>
              (lst' = lst /\ last'.ret = lst.selection /\ ~last'.changed)
         /\ lst.autoselect = AutoDrop =>
              (lst'.selection = -1 /\ last'.ret = -1 /\ last'.changed)
         /\ lst.autoselect = AutoNext =>
              /\ lst'.selection = IF lst.selection + 1 < Count(lst)
                                  THEN lst.selection + 1 ELSE -1
              /\ last'.ret = lst'.selection
              /\ last'.changed]_vars

\* C29: in Shuffle mode successive calls of Next() never pick the same item
\* twice until every item has been picked once; after that the cycle
\* restarts and items are picked again. A call picks an item whose hash no
\* call of the cycle picked, a call that picks nothing comes when every item
\* has been picked, and the call after it picks an item again.
C29_ShuffleCycles ==
    [][(last'.op = "Next" /\ lst.autoselect = AutoShuffle) =>
         /\ last'.ret >= 0 =>
              /\ last'.ret < Count(lst)
              /\ lst.items[last'.ret + 1].hash \notin lst.usedHashes
         /\ (last'.ret = -1 /\ last'.changed) =>
              \A k \in 1..Count(lst) : lst.items[k].hash \in lst.usedHashes
         /\ (last.op = "Next" /\ last.ret = -1 /\ last.changed /\ Count(lst) > 0) =>
              last'.ret >= 0]_vars

\* C30: SetAutoMode(mode) returns true exactly when mode differs from the
\* current mode; the used hashes are emptied when the mode changes into
\* Shuffle from another mode and are left as they are by every other call;
\* setting the current mode again changes nothing.
C30_SetAutoModeOutcomes ==
    [][last'.op = "SetAutoMode" =>
         /\ last'.changed <=> (last'.mode # lst.autoselect)
         /\ lst'.autoselect = last'.mode
         /\ lst'.items = lst.items /\ lst'.selection = lst.selection
         /\ lst'.usedHashes = IF last'.mode = AutoShuffle /\ lst.autoselect # AutoShuffle
                              THEN {} ELSE lst.usedHashes
         /\ last'.mode = lst.autoselect => lst' = lst]_vars

\* The mode has been changed from Shuffle to another with hashes used, and
\* they are still used.
C30_Witness ==
    /\ last.op = "SetAutoMode" /\ last.changed /\ last.mode # AutoShuffle
    /\ lst.autoselect = last.mode /\ lst.usedHashes # {}

-----------------------------------------------------------------------------
(* Dumps, conversions and the rest *)

\* The step is the arrival of a well-formed dump on a connection.
DumpArrived ==
    /\ inp'.conn \in conns /\ ~inp'.connect
    /\ inp'.msg.word = "dump" /\ Len(inp'.msg.args) = 0

\* The messages w begin with the dump of List l under tag t: AUTO, COUNTL n,
\* the n items in ascending index order, SEL.
IsDump(w, l, t) ==
    /\ Len(w) >= 3 + Count(l)
    /\ \A i \in 1..(3 + Count(l)) : w[i].tag = t
    /\ w[1].word = "AUTO" /\ Len(w[1].args) = 1
    /\ w[1].args[1] = CASE l.autoselect = AutoOff -> "off"
                        [] l.autoselect = AutoShuffle -> "shuffle"
                        [] OTHER -> "other"
    /\ w[2].word = "COUNTL" /\ Atoi(w[2].args[1]).n = Count(l)
    /\ \A k \in 1..Count(l) :
         /\ w[2 + k].word = IF l.items[k].itype = "track" THEN "FLOADL" ELSE "TLOADL"
         /\ Atoi(w[2 + k].args[1]).n = k - 1
         /\ w[2 + k].args[2] = l.items[k].hash
         /\ w[2 + k].args[3] = l.items[k].payload
    /\ w[3 + Count(l)].word = "SEL"
    /\ Atoi(w[3 + Count(l)].args[1]).n = l.selection
    /\ w[3 + Count(l)].args[2] =
         IF l.selection >= 0 /\ l.selection < Count(l) THEN l.items[l.selection + 1].hash
         ELSE "(undefined)"

\* C31: Dump emits, only to the requester and in this order, the automode,
\* the frozen list as one COUNTL n message and exactly n item messages in
\* ascending index order, then the selection (index and hash, the hash
\* '(undefined)' with nothing selected); Dump changes no state of the list.
C31_DumpInOrder ==
    [][DumpArrived =>
         /\ lst' = lst
         /\ IsDump(wire'[inp'.conn], lst, inp'.msg.tag)
         /\ Len(wire'[inp'.conn]) = 4 + Count(lst)
         /\ \A d \in Handles \ {inp'.conn} : Len(wire'[d]) = 0 /\ Len(resps'[d]) = 0]_vars

\* C32: for every AutoMode m of Off, Drop, Next and Shuffle,
\* ParseAutoMode(m.String()) returns m with no error; every string other
\* than 'off', 'drop', 'next' and 'shuffle' fails with invalid automode.
C32_ParseAutoModeOfString ==
    /\ last.op = "ParseString" => (last.mode = last.ret /\ last.err = "")
    /\ last.op = "ParseAutoMode" =>
         IF last.str \in {"off", "drop", "next", "shuffle"} THEN last.err = ""
         ELSE last.err = "invalid automode"

\* The name of Shuffle has been parsed back to Shuffle.
C32_Witness ==
    /\ last.op = "ParseString" /\ last.ret = AutoShuffle
    /\ last.str = "shuffle" /\ last.mode = AutoShuffle /\ last.err = ""

\* The bytes given to the tokeniser were one syntactically valid line that
\* is not empty: the tokeniser completed it, with a word in it, and is at
\* the start of a line again.
ValidLine == conv.op = "Pack" /\ ~conv.rest /\ Len(conv.lines) = 1 /\ conv.lines[1] # << >>

\* C33 as stated: packing the message obtained by tokenising a syntactically
\* valid non-empty line and passing the words to LineToMessage yields the
\* original line.
C33_PackOfTokenisedIsLine ==
    ValidLine => (conv.err = "" /\ conv.packed = conv.bytes)

\* Whether bytes, the rest of a line that has n complete words before it, is
\* in the form Pack writes, mode saying where in a word its first byte
\* comes: at the start of a word, in a word written as it is, in single
\* quotes, after a closing quote, or in the '\'' that stands for a quote.
\* special says that the quoted argument has a space or a quote in it.
RECURSIVE PackedFrom(_, _, _, _)
PackedFrom(bytes, mode, n, special) ==
    IF bytes = << >> THEN (mode = "bare" \/ (mode = "closed" /\ special)) /\ n >= 2
    ELSE LET b == Head(bytes)
             r == Tail(bytes)
         IN CASE mode = "start" ->
                   IF b = "'" THEN n >= 2 /\ PackedFrom(r, "quoted", n + 1, FALSE)
                   ELSE b = "a" /\ PackedFrom(r, "bare", n + 1, FALSE)
              [] mode = "bare" ->
                   IF b = " " THEN PackedFrom(r, "start", n, FALSE)
                   ELSE b = "a" /\ PackedFrom(r, "bare", n, FALSE)
              [] mode = "quoted" ->
                   IF b = "'" THEN PackedFrom(r, "closed", n, special)
                   ELSE b # "\\" /\ PackedFrom(r, "quoted", n, special \/ b \in {" ", "\""})
              [] mode = "closed" ->
                   IF b = " " THEN special /\ PackedFrom(r, "start", n, FALSE)
                   ELSE b = "\\" /\ PackedFrom(r, "escape", n, special)
              [] mode = "escape" -> b = "'" /\ PackedFrom(r, "reopen", n, special)
              [] OTHER -> b = "'" /\ PackedFrom(r, "quoted", n, TRUE)

\* The line given to the tokeniser is in the form Pack writes.
PackedLine ==
    /\ conv.op = "Pack"
    /\ PackedFrom(SubSeq(conv.bytes, 1, Len(conv.bytes) - 1), "start", 0, FALSE)

\* C33, amended: Pack of LineToMessage of the tokenised line is the line
\* when the line is in the form Pack writes: at least two words with single
\* spaces between them, a word without space, quote or backslash as it is,
\* an argument with a space or a quote in single quotes with '\'' for each
\* single quote, and no backslash in an argument.
C33_PackOfTokenisedPackedLine ==
    PackedLine => (ValidLine /\ conv.err = "" /\ conv.packed = conv.bytes)

\* A line with the argument ' written as ''\''' has come back as it was.
C33_Witness ==
    /\ PackedLine /\ conv.packed = conv.bytes
    /\ conv.bytes = <<"a", " ", "a", " ", "'", "'", "\\", "'", "'", "'", "\n">>
    /\ conv.lines[1][3] = <<"'">>

\* C34: Client.Bifrost succeeds, returning an adapter and an endpoint that
\* are not nil and no error, if and only if the Controller's Controllable
\* implements the Bifrost parser; otherwise it fails with the
\* cannot-speak-Bifrost error and returns nil for both.
C34_BifrostIffParser ==
    (Completed /\ hist.rq.Body = "bifrostParserRequest") =>
        LET r == ClientBifrost(Stream(hist.out, hist.rq.Origin.ReplyTx))
        IN IF parser THEN r.err = "" /\ r.bf /\ r.bfc
           ELSE r.err = "ErrControllerCannotSpeakBifrost" /\ ~r.bf /\ ~r.bfc

\* C35: once the context is cancelled a Send on a Bifrost-level endpoint
\* returns false and does not hand over the message, even with a receiver
\* ready on the other side; before the cancellation a Send with a ready
\* receiver returns true and delivers the message unchanged.
C35_SendAfterCancel ==
    [][(ep.sending # << >> /\ ep'.sending = << >>) =>
         IF ep.cancelled
         THEN ep'.returned = "false" /\ ep'.received = ep.received
         ELSE /\ ep.receiving /\ ep'.returned = "true"
              /\ ep'.received = Append(ep.received, ep.sending[1])]_vars

\* C36: an Add that returns an error (a duplicate hash, an index greater
\* than Count(), a negative index) leaves the List exactly as it was: the
\* same items in the same order, the same selection, the same automode and
\* the same used hashes.
C36_FailedAddLeavesList ==
    [][(last'.op = "Add" /\ last'.err # "") => lst' = lst]_vars

\* C38: the Boolean returned by Next() is true exactly when the selection
\* index after the call differs from the selection index before it, in
\* every automode and for every content of the list, items whose hash is the
\* empty string and the case of no selection included.
C38_NextFlagIsIndexChange ==
    [][last'.op = "Next" =>
         (last'.changed <=> lst'.selection # lst.selection)]_vars

\* The client a step sends a broadcast to, as a set: empty when the step
\* sends none.
BroadcastTo ==
    IF hist'.rq = hist.rq /\ Len(hist'.out) = Len(hist.out) + 1
       /\ hist'.out[Len(hist'.out)].resp.Broadcast
    THEN {hist'.out[Len(hist'.out)].ch[2]}
    ELSE {}

\* C40: whatever the order of hang-ups, NewClient requests, broadcasts and the
\* final shutdown, the Controller closes no client's Rx or Done twice and
\* sends no broadcast on a channel it has closed: the step that closes a
\* client's channels closes both, for the first time, and takes the client
\* out of the set, and a broadcast goes to a client of the set.
C40_ClosedOnceWhenRemoved ==
    [][/\ \A h \in Handles :
            /\ rxClosed'[h] <= 1 /\ doneClosed'[h] <= 1
            /\ (rxClosed'[h] # rxClosed[h] \/ doneClosed'[h] # doneClosed[h]) =>
                 /\ rxClosed[h] = 0 /\ doneClosed[h] = 0
                 /\ rxClosed'[h] = 1 /\ doneClosed'[h] = 1
                 /\ h \in DOMAIN clients /\ h \notin DOMAIN clients'
            /\ (h \in DOMAIN clients') => rxClosed'[h] = 0 /\ doneClosed'[h] = 0
       /\ \A h \in BroadcastTo :
            h \in DOMAIN clients /\ rxClosed[h] = 0 /\ doneClosed[h] = 0]_vars

\* A broadcast is on its way while one client has been hung up and another
\* was made by a NewClient request.
C40_Witness ==
    /\ hist.out # << >> /\ hist.out[Len(hist.out)].resp.Broadcast
    /\ \E h \in Handles : txClosed[h] /\ rxClosed[h] = 1 /\ h \notin DOMAIN clients
    /\ \E o \in DOMAIN clients : parent[o] # 0

\* C37: a Bifrost adapter started on a freshly copied Client completes its
\* handshake and reaches its main loop even when another client's request
\* makes the Controller broadcast between the registration of the copy and
\* the end of the handshake: the Controller and the adapter are never each
\* blocked in a send to the other, the Controller in a broadcast on the
\* client's Rx and the adapter in the Send of a handshake request.
C37_HandshakeNotBlocked ==
    \A h \in Handles :
        (kind[h] = "adapter" /\ upc[h] = "send" /\ uop[h] \in {"hsRole", "hsDump"}) =>
            ~(cpc = "handle" /\ todo # << >> /\ Head(todo).bc /\ btgt = h)

====
